---- MODULE Spec2Model ----
(***************************************************************************)
(* A model of the flux-lang interpreter: the tree-walking evaluator with   *)
(* its environment chain (evaluator.rs, environment.rs, object.rs), the    *)
(* bytecode encoder (code.rs), the symbol table (symbol_table.rs), the     *)
(* compiler (compiler.rs) and the stack VM (vm.rs).                        *)
(*                                                                         *)
(* Byte offsets and vector indices are 0-based as in the source; a TLA+    *)
(* sequence s holds the element with source index i at s[i + 1].           *)
(***************************************************************************)
EXTENDS Integers, Sequences, FiniteSets, TLC

(***************************************************************************)
(* Bounds of the model.                                                    *)
(***************************************************************************)
\* iterations of one While evaluation after which the loop counts as endless
MaxIter == 3
\* fib(k) is evaluated for k in 0..MaxK
MaxK == 4
\* number of define calls made on the stand-alone symbol table
MaxDefs == 4
\* the longest byte sequence handed to the VM as it is
MaxBytes == 3
\* the largest byte value in such a sequence (OP_SET_GLOBAL is 11)
MaxByte == 12
\* the most binary operators in one parsed chain of operands
MaxOperators == 3
\* the most words in one parsed sequence of words
MaxWords == 3
\* the longest array and the largest map indexed by the evaluator
MaxElems == 2
\* the longest program handed to the compiler on its own
MaxStatements == 2
\* the most frames in an environment chain built call by call
MaxDepth == 3
\* the largest integer literal compared by the VM
MaxOperand == 3

(***************************************************************************)
(* object.rs: the values.  Every value is a record with a tag; the payload *)
(* fields of the variants have different names.                            *)
(***************************************************************************)
Integer(i) == [tag |-> "Integer", value |-> i]
Boolean(b) == [tag |-> "Boolean", bool |-> b]
String(s) == [tag |-> "String", str |-> s]
Return(v) == [tag |-> "Return", inner |-> v]
Error(msg) == [tag |-> "Error", message |-> msg]
Null == [tag |-> "Null"]
\* a function value that captures an empty environment
Function_NoCapture(parameters, body, env) ==
    [tag |-> "Function", parameters |-> parameters, body |-> body,
     env |-> [store |-> [n \in {} |-> [tag |-> "Null"]], outer |-> [tag |-> "None"]]]

Function(parameters, body, env) ==
    [tag |-> "Function", parameters |-> parameters, body |-> body, env |-> env]

Array(elements) == [tag |-> "Array", elements |-> elements]

\* Object::Hash: the (key, value) entries of the map, one per key
Hash(pairs) == [tag |-> "Hash", pairs |-> pairs]

\* HashKey
HashKeyInteger(i) == [key |-> "Integer", value |-> i]
HashKeyBoolean(b) == [key |-> "Boolean", bool |-> b]
HashKeyString(s) == [key |-> "String", str |-> s]

\* Option<T>
None == [tag |-> "None"]
Some(x) == [tag |-> "Some", value |-> x]

\* An evaluation that never returns a value: a While that does not end
\* (Diverged) or a Rust panic (Panicked).  Not an Object of the program.
Diverged == [tag |-> "Diverged"]
Panicked == [tag |-> "Panicked"]
Aborts(v) == v.tag \in {"Diverged", "Panicked"}

(***************************************************************************)
(* environment.rs                                                          *)
(***************************************************************************)
EmptyStore == [n \in {} |-> Null]

\* Environment::new
NewEnvironment == [store |-> EmptyStore, outer |-> None]

\* Environment::new_enclosed
new_enclosed(outer) == [store |-> EmptyStore, outer |-> Some(outer)]

\* Environment::get
RECURSIVE get(_, _)
get(env, name) ==
    IF name \in DOMAIN env.store THEN Some(env.store[name])
    ELSE IF env.outer.tag = "Some" THEN get(env.outer.value, name)
    ELSE None

\* set that empties the store of the frame first
set_Replace(env, name, val) == [env EXCEPT !.store = [n \in {name} |-> val]]

\* Environment::set: insert into the store of this frame
set(env, name, val) ==
    [env EXCEPT !.store = [n \in (DOMAIN env.store) \cup {name} |->
                               IF n = name THEN val ELSE env.store[n]]]

(***************************************************************************)
(* ast.rs as the parser and the evaluator use it.                          *)
(***************************************************************************)
Let(name, value) == [type |-> "Let", name |-> name, value |-> value]
ReturnStmt(value) == [type |-> "Return", return_value |-> value]
ExprStmt(exp) == [type |-> "Expression", expression |-> exp]
Assign(name, value) == [type |-> "Assign", name |-> name, value |-> value]

Block(stmts) == [statements |-> stmts]

IntegerLiteral(i) == [type |-> "IntegerLiteral", value |-> i]
BooleanLit(b) == [type |-> "Boolean", bool |-> b]
StringLiteral(s) == [type |-> "StringLiteral", str |-> s]
Identifier(name) == [type |-> "Identifier", name |-> name]
Prefix(op, right) == [type |-> "Prefix", operator |-> op, right |-> right]
Infix(left, op, right) ==
    [type |-> "Infix", left |-> left, operator |-> op, right |-> right]
If(cond, cons, alt) ==
    [type |-> "If", condition |-> cond, consequence |-> cons, alternative |-> alt]
While(cond, body) == [type |-> "While", condition |-> cond, body |-> body]
FunctionLiteral(params, body) ==
    [type |-> "FunctionLiteral", parameters |-> params, body |-> body]
Call(function, args) ==
    [type |-> "Call", function |-> function, arguments |-> args]
ArrayLiteral(elements) == [type |-> "ArrayLiteral", elements |-> elements]
HashLiteral(pairs) == [type |-> "HashLiteral", pairs |-> pairs]
IndexExpression(left, index) ==
    [type |-> "IndexExpression", left |-> left, index |-> index]

(***************************************************************************)
(* evaluator.rs.  An evaluation takes and returns st = [env, trace]: env   *)
(* is the `&mut Environment` and trace the history of While events         *)
(* ("cond" for an evaluation of a condition, "body" for an execution of a  *)
(* body), which the code does not store.  The result is [val, st].         *)
(***************************************************************************)
R(val, st) == [val |-> val, st |-> st]
Log(st, event) == [st EXCEPT !.trace = Append(@, event)]

is_truthy(obj) ==
    CASE obj.tag = "Null" -> FALSE
      [] obj.tag = "Boolean" -> obj.bool
      [] OTHER -> TRUE

is_error(obj) == obj.tag = "Error"

eval_prefix(op, right) ==
    CASE op = "!" ->
           (CASE right.tag = "Boolean" -> Boolean(~right.bool)
              [] right.tag = "Null" -> Boolean(TRUE)
              [] OTHER -> Boolean(FALSE))
      [] op = "-" ->
           (IF right.tag = "Integer" THEN Integer(0 - right.value)
            ELSE Error("Unknown operator: -"))
      [] OTHER -> Error("Unknown operator: " \o op)

\* i64 division truncates toward zero
TruncDiv(l, r) ==
    LET al == IF l < 0 THEN 0 - l ELSE l
        ar == IF r < 0 THEN 0 - r ELSE r
        q == al \div ar
    IN IF (l < 0) = (r < 0) THEN q ELSE 0 - q

eval_infix(op, left, right) ==
    CASE left.tag = "Integer" /\ right.tag = "Integer" ->
           (LET l == left.value
                r == right.value
            IN CASE op = "+" -> Integer(l + r)
                 [] op = "-" -> Integer(l - r)
                 [] op = "*" -> Integer(l * r)
                 [] op = "/" -> IF r = 0 THEN Panicked ELSE Integer(TruncDiv(l, r))
                 [] op = "<" -> Boolean(l < r)
                 [] op = ">" -> Boolean(l > r)
                 [] op = "==" -> Boolean(l = r)
                 [] op = "!=" -> Boolean(l # r)
                 [] OTHER -> Error("Unknown op: " \o op))
      [] left.tag = "String" /\ right.tag = "String" ->
           (CASE op = "+" -> String(left.str \o right.str)
              [] op = "==" -> Boolean(left.str = right.str)
              [] op = "!=" -> Boolean(left.str # right.str)
              [] OTHER -> Error("Unknown string op"))
      [] left.tag = "String" /\ right.tag = "Integer" ->
           (IF op = "+" THEN String(left.str \o ToString(right.value))
            ELSE Error("Type mismatch"))
      [] left.tag = "Integer" /\ right.tag = "String" ->
           (IF op = "+" THEN String(ToString(left.value) \o right.str)
            ELSE Error("Type mismatch"))
      [] left.tag = "Boolean" /\ right.tag = "Boolean" ->
           (CASE op = "==" -> Boolean(left.bool = right.bool)
              [] op = "!=" -> Boolean(left.bool # right.bool)
              [] OTHER -> Error("Unknown op"))
      [] OTHER -> Error("Type mismatch")

\* the pairs of parameters.iter().zip(args.iter())
Min(a, b) == IF a < b THEN a ELSE b

\* a call that binds no parameter
bind_parameters_Skip(env, parameters, args, i) == env

RECURSIVE bind_parameters(_, _, _, _)
bind_parameters(env, parameters, args, i) ==
    IF i > Min(Len(parameters), Len(args)) THEN env
    ELSE bind_parameters(set(env, parameters[i], args[i]), parameters, args, i + 1)

\* get_hash_key
get_hash_key(obj) ==
    CASE obj.tag = "Integer" -> Some(HashKeyInteger(obj.value))
      [] obj.tag = "Boolean" -> Some(HashKeyBoolean(obj.bool))
      [] obj.tag = "String" -> Some(HashKeyString(obj.str))
      [] OTHER -> None

\* the position of a key among the entries of a map, 0 when absent
RECURSIVE KeyPosition(_, _, _)
KeyPosition(pairs, key, n) ==
    IF n = 0 THEN 0
    ELSE IF pairs[n].key = key THEN n
    ELSE KeyPosition(pairs, key, n - 1)

\* HashMap::insert
hash_insert(pairs, key, value) ==
    LET n == KeyPosition(pairs, key, Len(pairs))
    IN IF n = 0 THEN Append(pairs, [key |-> key, value |-> value])
       ELSE [pairs EXCEPT ![n].value = value]

\* HashMap::get
hash_get(pairs, key) ==
    LET n == KeyPosition(pairs, key, Len(pairs))
    IN IF n = 0 THEN None ELSE Some(pairs[n].value)

\* impl Display for Object; a map is written in the order of its entries
RECURSIVE Display(_), DisplayElements(_, _), DisplayPairs(_, _)
Display(obj) ==
    CASE obj.tag = "Integer" -> ToString(obj.value)
      [] obj.tag = "Boolean" -> (IF obj.bool THEN "true" ELSE "false")
      [] obj.tag = "String" -> obj.str
      [] obj.tag = "Return" -> Display(obj.inner)
      [] obj.tag = "Error" -> "ERROR: " \o obj.message
      [] obj.tag = "Null" -> "null"
      [] obj.tag = "Function" -> "fn(...)"
      [] obj.tag = "Array" ->
           "[" \o DisplayElements(obj.elements, Len(obj.elements)) \o "]"
      [] obj.tag = "Hash" -> "{" \o DisplayPairs(obj.pairs, Len(obj.pairs)) \o "}"

DisplayElements(elements, n) ==
    IF n = 0 THEN ""
    ELSE IF n = 1 THEN Display(elements[1])
    ELSE DisplayElements(elements, n - 1) \o ", " \o Display(elements[n])

DisplayPairs(pairs, n) ==
    IF n = 0 THEN ""
    ELSE (IF n = 1 THEN "" ELSE DisplayPairs(pairs, n - 1) \o ", ")
         \o (CASE pairs[n].key.key = "Integer" -> ToString(pairs[n].key.value)
               [] pairs[n].key.key = "Boolean" ->
                    (IF pairs[n].key.bool THEN "true" ELSE "false")
               [] pairs[n].key.key = "String" -> "\"" \o pairs[n].key.str \o "\"")
         \o ": " \o Display(pairs[n].value)

\* eval_index without `idx < 0 ||`: `arr[idx as usize]` is out of bounds
eval_index_NoLowerBound(left, index) ==
    CASE left.tag = "Array" /\ index.tag = "Integer" ->
           (IF index.value >= Len(left.elements) THEN Null
            ELSE IF index.value < 0 THEN Panicked
            ELSE left.elements[index.value + 1])
      [] left.tag = "Hash" ->
           (LET key == get_hash_key(index)
            IN IF key.tag = "Some"
               THEN (LET found == hash_get(left.pairs, key.value)
                     IN IF found.tag = "Some" THEN found.value ELSE Null)
               ELSE Error("Unusable as hash key: " \o Display(index)))
      [] OTHER -> Error("Index operator not supported")

eval_index(left, index) ==
    CASE left.tag = "Array" /\ index.tag = "Integer" ->
           (IF index.value < 0 \/ index.value >= Len(left.elements) THEN Null
            ELSE left.elements[index.value + 1])
      [] left.tag = "Hash" ->
           (LET key == get_hash_key(index)
            IN IF key.tag = "Some"
               THEN (LET found == hash_get(left.pairs, key.value)
                     IN IF found.tag = "Some" THEN found.value ELSE Null)
               ELSE Error("Unusable as hash key: " \o Display(index)))
      [] OTHER -> Error("Index operator not supported")

\* the value a block or a While hands on without looking further
ReturnOrError(v) == v.tag \in {"Return", "Error"}

\* the check of the While loop on the value of its body
WhileStops(v) == v.tag = "Return"

RECURSIVE eval(_, _), eval_statement(_, _), eval_block_loop(_, _, _, _),
          eval_expressions_loop(_, _, _, _), while_loop(_, _, _, _),
          apply_function(_, _, _), eval_hash_literal_loop(_, _, _, _)

eval_statement(stmt, st) ==
    CASE stmt.type = "Expression" -> eval(stmt.expression, st)
      [] stmt.type = "Return" ->
           (LET value == eval(stmt.return_value, st)
            IN IF is_error(value.val) \/ Aborts(value.val) THEN value
               ELSE R(Return(value.val), value.st))
      [] stmt.type = "Let" ->
           (LET val == eval(stmt.value, st)
            IN IF is_error(val.val) \/ Aborts(val.val) THEN val
               ELSE R(Null, [val.st EXCEPT !.env = set(@, stmt.name, val.val)]))
      [] OTHER -> R(Null, st)

\* eval_block: the for loop from statement i on, result being the last value
eval_block_loop(statements, i, st, result) ==
    IF i > Len(statements) THEN R(result, st)
    ELSE LET r == eval_statement(statements[i], st)
         IN IF ReturnOrError(r.val) \/ Aborts(r.val) THEN r
            ELSE eval_block_loop(statements, i + 1, r.st, r.val)

eval_block(block, st) == eval_block_loop(block.statements, 1, st, Null)

\* eval_expressions: [vals, st]; vals is <<error>> when an element fails
eval_expressions_loop(exps, i, st, result) ==
    IF i > Len(exps) THEN [vals |-> result, st |-> st]
    ELSE LET val == eval(exps[i], st)
         IN IF is_error(val.val) \/ Aborts(val.val)
            THEN [vals |-> <<val.val>>, st |-> val.st]
            ELSE eval_expressions_loop(exps, i + 1, val.st, Append(result, val.val))

eval_expressions(exps, st) == eval_expressions_loop(exps, 1, st, <<>>)

\* eval_hash_literal: the for loop from pair i on
eval_hash_literal_loop(node_pairs, i, st, pairs) ==
    IF i > Len(node_pairs) THEN R(Hash(pairs), st)
    ELSE LET key == eval(node_pairs[i][1], st)
         IN IF is_error(key.val) \/ Aborts(key.val) THEN key
            ELSE LET hash_key == get_hash_key(key.val)
                 IN IF hash_key.tag = "None"
                    THEN R(Error("Unusable as hash key: " \o Display(key.val)),
                           key.st)
                    ELSE LET value == eval(node_pairs[i][2], key.st)
                         IN IF is_error(value.val) \/ Aborts(value.val) THEN value
                            ELSE eval_hash_literal_loop(
                                     node_pairs, i + 1, value.st,
                                     hash_insert(pairs, hash_key.value, value.val))

eval_hash_literal(node, st) == eval_hash_literal_loop(node.pairs, 1, st, <<>>)

\* the loop of eval (While); fuel bounds the iterations the model follows
while_loop(node, st, result, fuel) ==
    LET cond == eval(node.condition, Log(st, "cond"))
    IN IF is_error(cond.val) \/ Aborts(cond.val) THEN cond
       ELSE IF ~is_truthy(cond.val) THEN R(result, cond.st)
       ELSE IF fuel = 0 THEN R(Diverged, cond.st)
       ELSE LET body == eval_block(node.body, Log(cond.st, "body"))
            IN IF WhileStops(body.val) \/ Aborts(body.val) THEN body
               ELSE while_loop(node, body.st, body.val, fuel - 1)

\* apply_function: [val, trace]; the frame of the call is dropped at the end
apply_function(func, args, trace) ==
    IF func.tag = "Function"
    THEN LET enclosed == bind_parameters(new_enclosed(func.env),
                                         func.parameters, args, 1)
             result == eval_block(func.body, [env |-> enclosed, trace |-> trace])
         IN [val |-> IF result.val.tag = "Return" THEN result.val.inner
                     ELSE result.val,
             trace |-> result.st.trace]
    ELSE [val |-> Error("Not a function"), trace |-> trace]

eval(node, st) ==
    CASE node.type = "IntegerLiteral" -> R(Integer(node.value), st)
      [] node.type = "Boolean" -> R(Boolean(node.bool), st)
      [] node.type = "StringLiteral" -> R(String(node.str), st)
      [] node.type = "Prefix" ->
           (LET right_val == eval(node.right, st)
            IN IF is_error(right_val.val) \/ Aborts(right_val.val) THEN right_val
               ELSE R(eval_prefix(node.operator, right_val.val), right_val.st))
      [] node.type = "Infix" ->
           (LET left_val == eval(node.left, st)
            IN IF is_error(left_val.val) \/ Aborts(left_val.val) THEN left_val
               ELSE LET right_val == eval(node.right, left_val.st)
                    IN IF is_error(right_val.val) \/ Aborts(right_val.val)
                       THEN right_val
                       ELSE R(eval_infix(node.operator, left_val.val, right_val.val),
                              right_val.st))
      [] node.type = "Identifier" ->
           (LET found == get(st.env, node.name)
            IN IF found.tag = "Some" THEN R(found.value, st)
               ELSE R(Error("Variable '" \o node.name \o "' not found"), st))
      [] node.type = "If" ->
           (LET cond == eval(node.condition, st)
            IN IF is_error(cond.val) \/ Aborts(cond.val) THEN cond
               ELSE IF is_truthy(cond.val) THEN eval_block(node.consequence, cond.st)
               ELSE IF node.alternative.tag = "Some"
                    THEN eval_block(node.alternative.value, cond.st)
               ELSE R(Null, cond.st))
      [] node.type = "While" -> while_loop(node, st, Null, MaxIter)
      [] node.type = "FunctionLiteral" ->
           R(Function(node.parameters, node.body, st.env), st)
      [] node.type = "Call" ->
           (LET func == eval(node.function, st)
            IN IF is_error(func.val) \/ Aborts(func.val) THEN func
               ELSE LET args == eval_expressions(node.arguments, func.st)
                    IN IF Len(args.vals) = 1
                          /\ (is_error(args.vals[1]) \/ Aborts(args.vals[1]))
                       THEN R(args.vals[1], args.st)
                       ELSE LET res == apply_function(func.val, args.vals,
                                                      args.st.trace)
                            IN R(res.val, [env |-> args.st.env,
                                           trace |-> res.trace]))
      [] node.type = "ArrayLiteral" ->
           (LET elems == eval_expressions(node.elements, st)
            IN IF Len(elems.vals) = 1
                  /\ (is_error(elems.vals[1]) \/ Aborts(elems.vals[1]))
               THEN R(elems.vals[1], elems.st)
               ELSE R(Array(elems.vals), elems.st))
      [] node.type = "IndexExpression" ->
           (LET l == eval(node.left, st)
            IN IF is_error(l.val) \/ Aborts(l.val) THEN l
               ELSE LET i == eval(node.index, l.st)
                    IN IF is_error(i.val) \/ Aborts(i.val) THEN i
                       ELSE R(eval_index(l.val, i.val), i.st))
      [] node.type = "HashLiteral" -> eval_hash_literal(node, st)

(***************************************************************************)
(* code.rs: opcodes and the encoder.                                       *)
(***************************************************************************)
OP_CONSTANT == 0
OP_ADD == 1
OP_POP == 2
OP_TRUE == 3
OP_FALSE == 4
OP_EQUAL == 5
OP_NOT_EQUAL == 6
OP_GREATER_THAN == 7
OP_JUMP_NOT_TRUTHY == 8
OP_JUMP == 9
OP_GET_GLOBAL == 10
OP_SET_GLOBAL == 11

\* lookup: the operand widths of an opcode, None for an unknown one
lookup(op) ==
    IF op \in {OP_CONSTANT, OP_JUMP_NOT_TRUTHY, OP_JUMP, OP_GET_GLOBAL, OP_SET_GLOBAL}
    THEN Some(<<2>>)
    ELSE IF op \in {OP_ADD, OP_POP, OP_TRUE, OP_FALSE, OP_EQUAL, OP_NOT_EQUAL,
                    OP_GREATER_THAN}
    THEN Some(<<>>)
    ELSE None

\* the two bytes of a u16 operand, big endian: (o >> 8) & 0xFF, o & 0xFF
HiByte(o) == (o \div 256) % 256
LoByte(o) == o % 256

\* make: opcode and operands to bytes (every operand of this ISA has width 2)
make(op, operands) ==
    LET def == lookup(op)
    IN IF def.tag = "None" THEN <<>>
       ELSE IF Len(def.value) = 0 THEN <<op>>
       ELSE IF Len(operands) = 0 THEN <<op, 0, 0>>
       ELSE <<op, HiByte(operands[1]), LoByte(operands[1])>>

\* read_u16 / u16::from_be_bytes on the bytes at offsets p and p + 1
read_u16(ins, p) == ins[p + 1] * 256 + ins[p + 2]

(***************************************************************************)
(* symbol_table.rs                                                         *)
(***************************************************************************)
Symbol(name, index) == [name |-> name, scope |-> "Global", index |-> index]

\* SymbolTable::new
NewSymbolTable == [store |-> EmptyStore, num_definitions |-> 0]

\* define that hands out the index a name already has when it is re-defined
define_Reuse(table, name) ==
    LET symbol == Symbol(name, IF name \in DOMAIN table.store
                               THEN table.store[name].index
                               ELSE table.num_definitions)
    IN [table |-> [store |-> [n \in (DOMAIN table.store) \cup {name} |->
                                  IF n = name THEN symbol ELSE table.store[n]],
                   num_definitions |-> table.num_definitions + 1],
        symbol |-> symbol]

\* SymbolTable::define: [table, symbol]
define(table, name) ==
    LET symbol == Symbol(name, table.num_definitions)
    IN [table |-> [store |-> [n \in (DOMAIN table.store) \cup {name} |->
                                  IF n = name THEN symbol ELSE table.store[n]],
                   num_definitions |-> table.num_definitions + 1],
        symbol |-> symbol]

\* SymbolTable::resolve
resolve(table, name) ==
    IF name \in DOMAIN table.store THEN Some(table.store[name]) ELSE None

(***************************************************************************)
(* compiler.rs.  c is the Compiler; an operation that can fail returns     *)
(* [c, err] with err = None for Ok(()) and Some(message) for Err(message): *)
(* c is then the compiler as the failing call left it.                     *)
(***************************************************************************)
EmittedInstruction(op, pos) == [opcode |-> op, position |-> pos]

\* Compiler::new
NewCompiler ==
    [instructions |-> <<>>, constants |-> <<>>, symbol_table |-> NewSymbolTable,
     last_instruction |-> None, previous_instruction |-> None]

Ok(c) == [c |-> c, err |-> None]

\* Err that is read as Ok(()) by the caller
Err_Swallowed(c, msg) == [c |-> c, err |-> None]

Err(c, msg) == [c |-> c, err |-> Some(msg)]

\* add_constant returning the length of the pool instead of the last index
add_constant_Len(c, obj) ==
    [c |-> [c EXCEPT !.constants = Append(@, obj)],
     index |-> Len(Append(c.constants, obj))]

\* add_constant: [c, index]
add_constant(c, obj) ==
    [c |-> [c EXCEPT !.constants = Append(@, obj)],
     index |-> Len(Append(c.constants, obj)) - 1]

\* emit: [c, pos]
emit(c, op, operands) ==
    LET ins == make(op, operands)
        pos == Len(c.instructions)
    IN [c |-> [c EXCEPT !.instructions = @ \o ins,
                        !.previous_instruction = c.last_instruction,
                        !.last_instruction = Some(EmittedInstruction(op, pos))],
        pos |-> pos]

\* change_operand that leaves the placeholder in place
change_operand_Skip(c, op_pos, operand) == c

\* change_operand that writes the offset of the instruction as its operand
change_operand_Self(c, op_pos, operand) ==
    LET new_instruction == make(c.instructions[op_pos + 1], <<op_pos>>)
    IN [c EXCEPT !.instructions =
            [i \in 1..Len(c.instructions) |->
                IF i - 1 >= op_pos /\ i - 1 < op_pos + Len(new_instruction)
                THEN new_instruction[i - op_pos]
                ELSE c.instructions[i]]]

\* change_operand: re-encode the instruction at op_pos with a new operand
change_operand(c, op_pos, operand) ==
    LET op == c.instructions[op_pos + 1]
        new_instruction == make(op, <<operand>>)
    IN [c EXCEPT !.instructions =
            [i \in 1..Len(c.instructions) |->
                IF i - 1 >= op_pos /\ i - 1 < op_pos + Len(new_instruction)
                THEN new_instruction[i - op_pos]
                ELSE c.instructions[i]]]

last_instruction_is_pop(c) ==
    IF c.last_instruction.tag = "Some"
    THEN c.last_instruction.value.opcode = OP_POP
    ELSE FALSE

remove_last_pop(c) ==
    IF c.last_instruction.tag = "Some"
    THEN [c EXCEPT !.instructions = SubSeq(@, 1, c.last_instruction.value.position),
                   !.last_instruction = c.previous_instruction]
    ELSE c

\* `if self.last_instruction_is_pop() { self.remove_last_pop(); }`
drop_last_pop(c) == IF last_instruction_is_pop(c) THEN remove_last_pop(c) ELSE c

RECURSIVE compile_expression(_, _), compile_statement(_, _), compile_block_loop(_, _, _)

compile_statement(c, stmt) ==
    CASE stmt.type = "Let" ->
           (LET value == compile_expression(c, stmt.value)
            IN IF value.err.tag = "Some" THEN value
               ELSE LET d == define(value.c.symbol_table, stmt.name)
                    IN Ok(emit([value.c EXCEPT !.symbol_table = d.table],
                               OP_SET_GLOBAL, <<d.symbol.index>>).c))
      [] stmt.type = "Expression" -> compile_expression(c, stmt.expression)
      [] OTHER -> Err(c, "Statement type not implemented yet")

\* compile_block: the for loop from statement i on
compile_block_loop(c, statements, i) ==
    IF i > Len(statements) THEN Ok(c)
    ELSE LET r == compile_statement(c, statements[i])
         IN IF r.err.tag = "Some" THEN r
            ELSE compile_block_loop(r.c, statements, i + 1)

compile_block(c, block) == compile_block_loop(c, block.statements, 1)

\* the operands in source order whatever the operator
InfixOperands_Unswapped(exp) == <<exp.left, exp.right>>

\* the operand order of an infix expression: `<` compiles right, then left
InfixOperands(exp) ==
    IF exp.operator = "<" THEN <<exp.right, exp.left>> ELSE <<exp.left, exp.right>>

\* the else-less branch: a Null constant
compile_null(c) ==
    LET k == add_constant(c, Null)
    IN emit(k.c, OP_CONSTANT, <<k.index>>).c

compile_expression(c, exp) ==
    CASE exp.type = "Infix" ->
           (LET first == compile_expression(c, InfixOperands(exp)[1])
            IN IF first.err.tag = "Some" THEN first
               ELSE LET second == compile_expression(first.c, InfixOperands(exp)[2])
                    IN IF second.err.tag = "Some" THEN second
                       ELSE CASE exp.operator = "<" ->
                                   Ok(emit(second.c, OP_GREATER_THAN, <<>>).c)
                              [] exp.operator = "+" -> Ok(emit(second.c, OP_ADD, <<>>).c)
                              [] exp.operator = "==" ->
                                   Ok(emit(second.c, OP_EQUAL, <<>>).c)
                              [] exp.operator = "!=" ->
                                   Ok(emit(second.c, OP_NOT_EQUAL, <<>>).c)
                              [] exp.operator = ">" ->
                                   Ok(emit(second.c, OP_GREATER_THAN, <<>>).c)
                              [] OTHER ->
                                   Err(second.c, "Unknown operator: " \o exp.operator))
      [] exp.type = "IntegerLiteral" ->
           (LET k == add_constant(c, Integer(exp.value))
            IN Ok(emit(k.c, OP_CONSTANT, <<k.index>>).c))
      [] exp.type = "Boolean" ->
           Ok(emit(c, IF exp.bool THEN OP_TRUE ELSE OP_FALSE, <<>>).c)
      [] exp.type = "Identifier" ->
           (LET symbol == resolve(c.symbol_table, exp.name)
            IN IF symbol.tag = "Some"
               THEN Ok(emit(c, OP_GET_GLOBAL, <<symbol.value.index>>).c)
               ELSE Err(c, "Undefined variable: " \o exp.name))
      [] exp.type = "If" ->
           (LET condition == compile_expression(c, exp.condition)
            IN IF condition.err.tag = "Some" THEN condition
               ELSE
               LET jnt == emit(condition.c, OP_JUMP_NOT_TRUTHY, <<9999>>)
                   consequence == compile_block(jnt.c, exp.consequence)
               IN IF consequence.err.tag = "Some" THEN consequence
                  ELSE
                  LET jump == emit(drop_last_pop(consequence.c), OP_JUMP, <<9999>>)
                      after_consequence_pos == Len(jump.c.instructions)
                      patched == change_operand(jump.c, jnt.pos, after_consequence_pos)
                      alternative ==
                          IF exp.alternative.tag = "Some"
                          THEN LET alt == compile_block(patched, exp.alternative.value)
                               IN IF alt.err.tag = "Some" THEN alt
                                  ELSE Ok(drop_last_pop(alt.c))
                          ELSE Ok(compile_null(patched))
                  IN IF alternative.err.tag = "Some" THEN alternative
                     ELSE Ok(change_operand(alternative.c, jump.pos,
                                            Len(alternative.c.instructions))))
      [] OTHER -> Err(c, "Expression type not implemented yet")

(***************************************************************************)
(* vm.rs.  The stack is the preallocated vector of STACK_SIZE slots.  The  *)
(* globals vector, GLOBALS_SIZE slots of Null, is kept as the function     *)
(* from the written indices to their values; every other slot reads Null.  *)
(* run() is followed one loop iteration at a time: m = [vm, ip, res] with  *)
(* res = Running while the loop runs, ResultOk or ResultErr(message) for   *)
(* the value returned, and Panic for an index out of bounds.               *)
(***************************************************************************)
Running == [tag |-> "Running"]
ResultOk == [tag |-> "Ok"]
ResultErr(msg) == [tag |-> "Err", message |-> msg]
Panic == [tag |-> "Panic"]

STACK_SIZE == 2048
GLOBALS_SIZE == 65536

\* VM::new.  `stack` and `globals` map the slots that hold a value other
\* than Null to it; every other slot holds the Null of vec![Null; _].
NewVM(bytecode) ==
    [constants |-> bytecode.constants,
     instructions |-> bytecode.instructions,
     stack |-> EmptyStore,
     sp |-> 0,
     globals |-> EmptyStore]

\* stack[i]
ReadSlot(stack, i) == IF i \in DOMAIN stack THEN stack[i] ELSE Null

\* VM::stack_top
stack_top(vm) == IF vm.sp = 0 THEN None ELSE Some(ReadSlot(vm.stack, vm.sp - 1))

\* stack[i] = obj
StoreSlot(stack, i, obj) ==
    [n \in (IF obj = Null THEN DOMAIN stack \ {i} ELSE DOMAIN stack \cup {i}) |->
        IF n = i THEN obj ELSE stack[n]]

\* VM::push without the test of sp
push_Unchecked(vm, obj) ==
    [vm |-> [vm EXCEPT !.stack = StoreSlot(vm.stack, vm.sp, obj),
                       !.sp = vm.sp + 1],
     err |-> None]

\* VM::push: [vm, err]
push(vm, obj) ==
    IF vm.sp >= STACK_SIZE THEN [vm |-> vm, err |-> Some("Stack Overflow")]
    ELSE [vm |-> [vm EXCEPT !.stack = StoreSlot(vm.stack, vm.sp, obj),
                            !.sp = vm.sp + 1],
          err |-> None]

\* VM::pop without the test of sp
pop_Unchecked(vm) ==
    [vm |-> [vm EXCEPT !.sp = vm.sp - 1], val |-> ReadSlot(vm.stack, vm.sp - 1)]

\* VM::pop: [vm, val]
pop(vm) ==
    IF vm.sp = 0 THEN [vm |-> vm, val |-> Null]
    ELSE [vm |-> [vm EXCEPT !.sp = vm.sp - 1], val |-> ReadSlot(vm.stack, vm.sp - 1)]

\* VM::is_truthy taking every value as truthy
vm_is_truthy_Always(obj) == TRUE

\* VM::is_truthy
vm_is_truthy(obj) ==
    CASE obj.tag = "Boolean" -> obj.bool
      [] obj.tag = "Null" -> FALSE
      [] OTHER -> TRUE

\* VM::execute_binary_operation: Some(value) for Ok, None for Err
execute_binary_operation(left, right) ==
    IF left.tag = "Integer" /\ right.tag = "Integer"
    THEN Some(Integer(left.value + right.value))
    ELSE None

\* globals[i]
ReadGlobal(vm, i) == IF i \in DOMAIN vm.globals THEN vm.globals[i] ELSE Null

\* globals[i] = val
WriteGlobal(vm, i, val) ==
    [vm EXCEPT !.globals = [n \in (DOMAIN vm.globals) \cup {i} |->
                                IF n = i THEN val ELSE vm.globals[n]]]

M(vm, ip, res) == [vm |-> vm, ip |-> ip, res |-> res]

\* `self.push(obj)?` followed by the next loop iteration at ip
PushThen(vm, obj, ip) ==
    LET p == push(vm, obj)
    IN M(p.vm, ip, IF p.err.tag = "Some" THEN ResultErr(p.err.value) ELSE Running)

\* pop right, pop left: [vm, left, right]
PopTwo(vm) ==
    LET r == pop(vm)
        l == pop(r.vm)
    IN [vm |-> l.vm, left |-> l.val, right |-> r.val]

\* the two operand bytes at ip and ip + 1 can be read
HasOperand(vm, ip) == ip + 1 < Len(vm.instructions)

\* the comparison of OP_GREATER_THAN on two integers
GreaterThan(l, r) == l > r

\* one iteration of the loop of run(), for ip < instructions.len()
step(vm, ip0) ==
    LET op == vm.instructions[ip0 + 1]
        ip == ip0 + 1
    IN CASE op = OP_CONSTANT ->
              (IF ~HasOperand(vm, ip) THEN M(vm, ip, Panic)
               ELSE LET const_index == read_u16(vm.instructions, ip)
                    IN IF const_index >= Len(vm.constants)
                       THEN M(vm, ip + 2, Panic)
                       ELSE PushThen(vm, vm.constants[const_index + 1], ip + 2))
         [] op = OP_POP -> M(pop(vm).vm, ip, Running)
         [] op = OP_ADD ->
              (LET a == PopTwo(vm)
                   result == execute_binary_operation(a.left, a.right)
               IN IF result.tag = "None"
                  THEN M(a.vm, ip, ResultErr("Type mismatch or unsupported operation"))
                  ELSE PushThen(a.vm, result.value, ip))
         [] op = OP_TRUE -> PushThen(vm, Boolean(TRUE), ip)
         [] op = OP_FALSE -> PushThen(vm, Boolean(FALSE), ip)
         [] op = OP_EQUAL ->
              (LET a == PopTwo(vm)
               IN PushThen(a.vm, Boolean(a.left = a.right), ip))
         [] op = OP_NOT_EQUAL ->
              (LET a == PopTwo(vm)
               IN PushThen(a.vm, Boolean(a.left # a.right), ip))
         [] op = OP_GREATER_THAN ->
              (LET a == PopTwo(vm)
               IN IF a.left.tag = "Integer" /\ a.right.tag = "Integer"
                  THEN PushThen(a.vm, Boolean(GreaterThan(a.left.value, a.right.value)),
                                ip)
                  ELSE M(a.vm, ip, ResultErr("Type mismatch for >")))
         [] op = OP_JUMP ->
              (IF ~HasOperand(vm, ip) THEN M(vm, ip, Panic)
               ELSE M(vm, read_u16(vm.instructions, ip), Running))
         [] op = OP_JUMP_NOT_TRUTHY ->
              (IF ~HasOperand(vm, ip) THEN M(vm, ip, Panic)
               ELSE LET pos == read_u16(vm.instructions, ip)
                        condition == pop(vm)
                    IN M(condition.vm,
                         IF ~vm_is_truthy(condition.val) THEN pos ELSE ip + 2,
                         Running))
         [] op = OP_SET_GLOBAL ->
              (IF ~HasOperand(vm, ip) THEN M(vm, ip, Panic)
               ELSE LET global_index == read_u16(vm.instructions, ip)
                        val == pop(vm)
                    IN IF global_index >= GLOBALS_SIZE
                       THEN M(val.vm, ip + 2, Panic)
                       ELSE M(WriteGlobal(val.vm, global_index, val.val), ip + 2,
                               Running))
         [] op = OP_GET_GLOBAL ->
              (IF ~HasOperand(vm, ip) THEN M(vm, ip, Panic)
               ELSE LET global_index == read_u16(vm.instructions, ip)
                    IN IF global_index >= GLOBALS_SIZE
                       THEN M(vm, ip + 2, Panic)
                       ELSE PushThen(vm, ReadGlobal(vm, global_index), ip + 2))
         [] OTHER -> M(vm, ip, ResultErr("Unknown Opcode: " \o ToString(op)))

(***************************************************************************)
(* token.rs and lexer.rs.  The input is a sequence of characters, each a   *)
(* string of length one; NUL stands for '\0'.  A token is a record of its  *)
(* TokenType, by name, and its literal.                                    *)
(***************************************************************************)
Token(token_type, literal) == [token_type |-> token_type, literal |-> literal]

\* `let x = value; rest`
Bind(x, rest(_)) == rest(x)

NUL == "\\0"

Letters ==
    {"a", "b", "c", "d", "e", "f", "g", "h", "i", "j", "k", "l", "m", "n", "o",
     "p", "q", "r", "s", "t", "u", "v", "w", "x", "y", "z", "_"}

Digits == {"0", "1", "2", "3", "4", "5", "6", "7", "8", "9"}

is_letter(ch) == ch \in Letters
is_digit(ch) == ch \in Digits
is_whitespace(ch) == ch \in {" ", "\n", "\t", "\r"}

lookup_ident(ident) ==
    CASE ident = "fn" -> "Fn"
      [] ident = "mut" -> "Mut"
      [] ident = "if" -> "If"
      [] ident = "else" -> "Else"
      [] ident = "true" -> "True"
      [] ident = "false" -> "False"
      [] ident = "return" -> "Return"
      [] ident = "material" -> "Material"
      [] ident = "context" -> "Context"
      [] ident = "while" -> "While"
      [] OTHER -> "Identifier"

\* Lexer::read_char
read_char(l) ==
    [l EXCEPT !.ch = IF l.read_position >= Len(l.input) THEN NUL
                     ELSE l.input[l.read_position + 1],
              !.position = l.read_position,
              !.read_position = l.read_position + 1]

\* Lexer::new
NewLexer(input) ==
    read_char([input |-> input, position |-> 0, read_position |-> 0, ch |-> NUL])

\* Lexer::peek_char
peek_char(l) ==
    IF l.read_position >= Len(l.input) THEN NUL ELSE l.input[l.read_position + 1]

\* Lexer::skip_whitespace
RECURSIVE skip_whitespace(_)
skip_whitespace(l) ==
    IF is_whitespace(l.ch) THEN skip_whitespace(read_char(l)) ELSE l

\* the while loop of skip_comment
RECURSIVE skip_to_line_end(_)
skip_to_line_end(l) ==
    IF l.ch # "\n" /\ l.ch # NUL THEN skip_to_line_end(read_char(l)) ELSE l

\* Lexer::skip_comment
skip_comment(l) == skip_whitespace(skip_to_line_end(l))

\* self.input[pos..end].iter().collect(), for pos <= end <= input.len()
RECURSIVE Collect(_, _, _)
Collect(input, pos, end) ==
    IF pos >= end THEN "" ELSE input[pos + 1] \o Collect(input, pos + 1, end)

\* the while loops of read_identifier and read_number
RECURSIVE read_while_letter(_), read_while_digit(_), read_to_quote(_)
read_while_letter(l) == IF is_letter(l.ch) THEN read_while_letter(read_char(l)) ELSE l
read_while_digit(l) == IF is_digit(l.ch) THEN read_while_digit(read_char(l)) ELSE l

\* the loop of read_string
read_to_quote(l) ==
    Bind(read_char(l), LAMBDA n :
        IF n.ch = "\"" \/ n.ch = NUL THEN n ELSE read_to_quote(n))

\* Lexer::read_identifier: [l, literal]
read_identifier(l) ==
    Bind(read_while_letter(l), LAMBDA n :
        [l |-> n, literal |-> Collect(l.input, l.position, n.position)])

\* Lexer::read_number: [l, literal]
read_number(l) ==
    Bind(read_while_digit(l), LAMBDA n :
        [l |-> n, literal |-> Collect(l.input, l.position, n.position)])

\* Lexer::read_string: [l, literal]
read_string(l) ==
    Bind(read_to_quote(l), LAMBDA n :
        [l |-> n, literal |-> Collect(l.input, l.position + 1, n.position)])

\* the token types of the characters that are a token on their own
SingleCharToken(ch) ==
    CASE ch = "+" -> Token("Plus", "+")
      [] ch = "-" -> Token("Minus", "-")
      [] ch = "*" -> Token("Asterisk", "*")
      [] ch = "/" -> Token("Slash", "/")
      [] ch = "<" -> Token("Lt", "<")
      [] ch = ">" -> Token("Gt", ">")
      [] ch = "," -> Token("Comma", ",")
      [] ch = ":" -> Token("Colon", ":")
      [] ch = "(" -> Token("LParen", "(")
      [] ch = ")" -> Token("RParen", ")")
      [] ch = "{" -> Token("LBrace", "{")
      [] ch = "}" -> Token("RBrace", "}")
      [] ch = "[" -> Token("LBracket", "[")
      [] ch = "]" -> Token("RBracket", "]")
      [] ch = NUL -> Token("EOF", "")
      [] OTHER -> Token("Illegal", "")

\* Lexer::next_token after skip_whitespace: [l, tok]
RECURSIVE lexer_next_token(_)
scan_token(l) ==
    IF l.ch = "/" /\ peek_char(l) = "/" THEN lexer_next_token(skip_comment(l))
    ELSE IF is_letter(l.ch)
    THEN Bind(read_identifier(l), LAMBDA r :
             [l |-> r.l, tok |-> Token(lookup_ident(r.literal), r.literal)])
    ELSE IF is_digit(l.ch)
    THEN Bind(read_number(l), LAMBDA r : [l |-> r.l, tok |-> Token("Int", r.literal)])
    ELSE IF l.ch = "="
    THEN (IF peek_char(l) = "="
          THEN [l |-> read_char(read_char(l)), tok |-> Token("Eq", "==")]
          ELSE [l |-> read_char(l), tok |-> Token("Assign", "=")])
    ELSE IF l.ch = "!"
    THEN (IF peek_char(l) = "="
          THEN [l |-> read_char(read_char(l)), tok |-> Token("NotEq", "!=")]
          ELSE [l |-> read_char(l), tok |-> Token("Illegal", "!")])
    ELSE IF l.ch = "\""
    THEN Bind(read_string(l), LAMBDA r :
             [l |-> read_char(r.l), tok |-> Token("String", r.literal)])
    ELSE [l |-> read_char(l), tok |-> SingleCharToken(l.ch)]

\* Lexer::next_token: [l, tok]
lexer_next_token(l) == scan_token(skip_whitespace(l))

(***************************************************************************)
(* parser.rs.  A parsing function takes the Parser p = [l, cur_token,      *)
(* peek_token, errors] and returns [p, val]: the Parser as the call leaves *)
(* it and the value returned, None or Some(node) for an Option.            *)
(***************************************************************************)
\* enum Precedence, ordered by its declaration
Lowest == 0
Equals == 1
LessGreater == 2
Sum == 3
Product == 4
PrefixPrecedence == 5
CallPrecedence == 6
IndexPrecedence == 7

token_precedence(t) ==
    CASE t \in {"Eq", "NotEq"} -> Equals
      [] t \in {"Lt", "Gt"} -> LessGreater
      [] t \in {"Plus", "Minus"} -> Sum
      [] t \in {"Slash", "Asterisk"} -> Product
      [] t = "LParen" -> CallPrecedence
      [] t = "LBracket" -> IndexPrecedence
      [] OTHER -> Lowest

PR(p, val) == [p |-> p, val |-> val]

\* Parser::new
NewParser(l) ==
    Bind(lexer_next_token(l), LAMBDA cur :
        Bind(lexer_next_token(cur.l), LAMBDA peek :
            [l |-> peek.l, cur_token |-> cur.tok, peek_token |-> peek.tok,
             errors |-> <<>>]))

\* Parser::next_token
next_token(p) ==
    Bind(lexer_next_token(p.l), LAMBDA n :
        [p EXCEPT !.cur_token = p.peek_token, !.peek_token = n.tok, !.l = n.l])

\* Parser::expect_peek: [p, ok]
expect_peek(p, t) ==
    IF p.peek_token.token_type = t THEN [p |-> next_token(p), ok |-> TRUE]
    ELSE [p |-> p, ok |-> FALSE]

\* `if self.peek_token.token_type == TokenType::Semicolon { self.next_token(); }`
skip_semicolon(p) ==
    IF p.peek_token.token_type = "Semicolon" THEN next_token(p) ELSE p

DigitValue(ch) ==
    CASE ch = "0" -> 0 [] ch = "1" -> 1 [] ch = "2" -> 2 [] ch = "3" -> 3
      [] ch = "4" -> 4 [] ch = "5" -> 5 [] ch = "6" -> 6 [] ch = "7" -> 7
      [] ch = "8" -> 8 [] ch = "9" -> 9

\* literal.parse().unwrap_or(0) on the digits of an Int token that fit an i64
RECURSIVE ParseInteger(_, _)
ParseInteger(literal, n) ==
    IF n = 0 THEN 0
    ELSE 10 * ParseInteger(literal, n - 1) + DigitValue(SubSeq(literal, n, n))

BinaryOperatorTokens ==
    {"Plus", "Minus", "Slash", "Asterisk", "Eq", "NotEq", "Lt", "Gt"}

RECURSIVE parse_statement(_), parse_expression(_, _), infix_loop(_, _, _),
          parse_block_statement(_), block_loop(_, _),
          parse_expression_list(_, _), expression_list_loop(_, _, _),
          hash_literal_loop(_, _)

\* `let x = call?; rest`, for a call that returns [p, val] with an Option val:
\* on None the function returns None, on Some(x) it goes on with [p, val |-> x]
Try(r, rest(_)) ==
    IF r.val.tag = "None" THEN PR(r.p, None) ELSE rest(PR(r.p, r.val.value))

\* `if !self.expect_peek(t) { return None; } rest`
Expect(e, rest(_)) == IF ~e.ok THEN PR(e.p, None) ELSE rest(e.p)

\* Parser::parse_assignment_statement
parse_assignment_statement(p) ==
    Try(parse_expression(next_token(next_token(p)), Lowest),
        LAMBDA value :
            PR(skip_semicolon(value.p),
               Some(Assign(p.cur_token.literal, value.val))))

\* Parser::parse_let_statement
parse_let_statement(p) ==
    Bind(next_token(p), LAMBDA p1 :
        IF p1.cur_token.token_type # "Identifier" THEN PR(p1, None)
        ELSE Bind(next_token(p1), LAMBDA p2 :
            IF p2.cur_token.token_type # "Assign" THEN PR(p2, None)
            ELSE Try(parse_expression(next_token(p2), Lowest),
                     LAMBDA value :
                         PR(skip_semicolon(value.p),
                            Some(Let(p1.cur_token.literal, value.val))))))

\* Parser::parse_return_statement
parse_return_statement(p) ==
    Try(parse_expression(next_token(p), Lowest),
        LAMBDA value : PR(skip_semicolon(value.p), Some(ReturnStmt(value.val))))

\* Parser::parse_expression_statement
parse_expression_statement(p) ==
    Try(parse_expression(p, Lowest),
        LAMBDA expr : PR(skip_semicolon(expr.p), Some(ExprStmt(expr.val))))

\* Parser::parse_statement
parse_statement(p) ==
    CASE p.cur_token.token_type = "Mut" -> parse_let_statement(p)
      [] p.cur_token.token_type = "Return" -> parse_return_statement(p)
      [] p.cur_token.token_type = "Identifier" ->
            (IF p.peek_token.token_type = "Assign"
             THEN parse_assignment_statement(p)
             ELSE parse_expression_statement(p))
      [] OTHER -> parse_expression_statement(p)

\* the while loop of parse_block_statement: [p, val], val the statements
block_loop(p, statements) ==
    IF p.cur_token.token_type # "RBrace" /\ p.cur_token.token_type # "EOF"
    THEN Bind(parse_statement(p), LAMBDA stmt :
             block_loop(next_token(stmt.p),
                        IF stmt.val.tag = "Some"
                        THEN Append(statements, stmt.val.value)
                        ELSE statements))
    ELSE PR(p, statements)

\* Parser::parse_block_statement: [p, val], val the BlockStatement
parse_block_statement(p) ==
    Bind(block_loop(next_token(p), <<>>), LAMBDA r : PR(r.p, Block(r.val)))

\* Parser::parse_prefix_expression
parse_prefix_expression(p) ==
    Try(parse_expression(next_token(p), PrefixPrecedence),
        LAMBDA right : PR(right.p, Some(Prefix(p.cur_token.literal, right.val))))

\* Parser::parse_infix_expression with the right operand parsed at Lowest
parse_infix_expression_Lowest(p, left) ==
    Try(parse_expression(next_token(p), Lowest),
        LAMBDA right :
            PR(right.p, Some(Infix(left, p.cur_token.literal, right.val))))

\* Parser::parse_infix_expression
parse_infix_expression(p, left) ==
    Try(parse_expression(next_token(p), token_precedence(p.cur_token.token_type)),
        LAMBDA right :
            PR(right.p, Some(Infix(left, p.cur_token.literal, right.val))))

\* Parser::parse_grouped_expression
parse_grouped_expression(p) ==
    Bind(parse_expression(next_token(p), Lowest), LAMBDA exp :
        IF exp.p.peek_token.token_type = "RParen"
        THEN PR(next_token(exp.p), exp.val)
        ELSE exp)

\* parse_if_expression from `let mut alternative = None;` on
parse_alternative(condition, consequence) ==
    IF consequence.p.peek_token.token_type = "Else"
    THEN Expect(expect_peek(next_token(consequence.p), "LBrace"), LAMBDA p1 :
             Bind(parse_block_statement(p1), LAMBDA alternative :
                 PR(alternative.p,
                    Some(If(condition, consequence.val, Some(alternative.val))))))
    ELSE PR(consequence.p, Some(If(condition, consequence.val, None)))

\* Parser::parse_if_expression
parse_if_expression(p) ==
    Expect(expect_peek(p, "LParen"), LAMBDA p1 :
        Try(parse_expression(next_token(p1), Lowest), LAMBDA condition :
            Expect(expect_peek(condition.p, "RParen"), LAMBDA p2 :
                Expect(expect_peek(p2, "LBrace"), LAMBDA p3 :
                    parse_alternative(condition.val, parse_block_statement(p3))))))

\* Parser::parse_while_expression
parse_while_expression(p) ==
    Expect(expect_peek(p, "LParen"), LAMBDA p1 :
        Try(parse_expression(next_token(p1), Lowest), LAMBDA condition :
            Expect(expect_peek(condition.p, "RParen"), LAMBDA p2 :
                Expect(expect_peek(p2, "LBrace"), LAMBDA p3 :
                    Bind(parse_block_statement(p3), LAMBDA body :
                        PR(body.p, Some(While(condition.val, body.val))))))))

\* the while loop of parse_function_parameters: [p, val], val the identifiers
RECURSIVE function_parameters_loop(_, _)
function_parameters_loop(p, identifiers) ==
    IF p.peek_token.token_type = "Comma"
    THEN Bind(next_token(next_token(p)), LAMBDA n :
             function_parameters_loop(n, Append(identifiers, n.cur_token.literal)))
    ELSE PR(p, identifiers)

\* Parser::parse_function_parameters
parse_function_parameters(p) ==
    IF p.peek_token.token_type = "RParen" THEN PR(next_token(p), Some(<<>>))
    ELSE Bind(next_token(p), LAMBDA p1 :
        Bind(function_parameters_loop(p1, <<p1.cur_token.literal>>),
             LAMBDA identifiers :
                 Expect(expect_peek(identifiers.p, "RParen"), LAMBDA p2 :
                     PR(p2, Some(identifiers.val)))))

\* Parser::parse_function_literal
parse_function_literal(p) ==
    Expect(expect_peek(p, "LParen"), LAMBDA p1 :
        Try(parse_function_parameters(p1), LAMBDA parameters :
            Expect(expect_peek(parameters.p, "LBrace"), LAMBDA p2 :
                Bind(parse_block_statement(p2), LAMBDA body :
                    PR(body.p, Some(FunctionLiteral(parameters.val, body.val)))))))

\* the while loop of parse_expression_list: [p, val], val None or Some(list)
expression_list_loop(p, end, list) ==
    IF p.peek_token.token_type = "Comma"
    THEN Try(parse_expression(next_token(next_token(p)), Lowest), LAMBDA exp :
             expression_list_loop(exp.p, end, Append(list, exp.val)))
    ELSE PR(p, Some(list))

\* Parser::parse_expression_list
parse_expression_list(p, end) ==
    IF p.peek_token.token_type = end THEN PR(next_token(p), Some(<<>>))
    ELSE Try(parse_expression(next_token(p), Lowest), LAMBDA first :
        Try(expression_list_loop(first.p, end, <<first.val>>), LAMBDA list :
            Expect(expect_peek(list.p, end), LAMBDA p1 : PR(p1, Some(list.val)))))

\* Parser::parse_call_expression
parse_call_expression(p, function) ==
    Try(parse_expression_list(p, "RParen"), LAMBDA arguments :
        PR(arguments.p, Some(Call(function, arguments.val))))

\* Parser::parse_array_literal
parse_array_literal(p) ==
    Try(parse_expression_list(p, "RBracket"), LAMBDA elements :
        PR(elements.p, Some(ArrayLiteral(elements.val))))

\* Parser::parse_index_expression
parse_index_expression(p, left) ==
    Try(parse_expression(next_token(p), Lowest), LAMBDA index :
        Expect(expect_peek(index.p, "RBracket"), LAMBDA p1 :
            PR(p1, Some(IndexExpression(left, index.val)))))

\* parse_hash_literal's loop from `pairs.push((key, value));` on
hash_literal_next(p, pairs) ==
    IF p.peek_token.token_type = "RBrace" THEN PR(next_token(p), Some(pairs))
    ELSE Expect(expect_peek(p, "Comma"), LAMBDA p1 :
             hash_literal_loop(next_token(p1), pairs))

\* the loop of parse_hash_literal: [p, val], val None or Some(pairs)
hash_literal_loop(p, pairs) ==
    Try(parse_expression(p, Lowest), LAMBDA key :
        Expect(expect_peek(key.p, "Colon"), LAMBDA p1 :
            Try(parse_expression(next_token(p1), Lowest), LAMBDA value :
                hash_literal_next(value.p, Append(pairs, <<key.val, value.val>>)))))

\* Parser::parse_hash_literal
parse_hash_literal(p) ==
    IF p.peek_token.token_type = "RBrace"
    THEN PR(next_token(next_token(p)), Some(HashLiteral(<<>>)))
    ELSE Try(hash_literal_loop(next_token(p), <<>>), LAMBDA pairs :
             PR(pairs.p, Some(HashLiteral(pairs.val))))

\* the prefix part of parse_expression
parse_prefix_part(p) ==
    LET t == p.cur_token.token_type
    IN CASE t = "Identifier" -> PR(p, Some(Identifier(p.cur_token.literal)))
         [] t = "Int" ->
              PR(p, Some(IntegerLiteral(ParseInteger(p.cur_token.literal,
                                                     Len(p.cur_token.literal)))))
         [] t = "String" -> PR(p, Some(StringLiteral(p.cur_token.literal)))
         [] t = "True" -> PR(p, Some(BooleanLit(TRUE)))
         [] t = "False" -> PR(p, Some(BooleanLit(FALSE)))
         [] t \in {"Bang", "Minus"} -> parse_prefix_expression(p)
         [] t = "LParen" -> parse_grouped_expression(p)
         [] t = "If" -> parse_if_expression(p)
         [] t = "Fn" -> parse_function_literal(p)
         [] t = "LBracket" -> parse_array_literal(p)
         [] t = "LBrace" -> parse_hash_literal(p)
         [] t = "While" -> parse_while_expression(p)
         [] OTHER -> PR(p, None)

\* the arm of the infix loop for the token type t of peek_token
parse_infix_part(p, t, left_expr) ==
    CASE t \in BinaryOperatorTokens -> parse_infix_expression(next_token(p), left_expr)
      [] t = "LParen" -> parse_call_expression(next_token(p), left_expr)
      [] t = "LBracket" -> parse_index_expression(next_token(p), left_expr)

\* the infix loop of parse_expression
infix_loop(p, left_expr, precedence) ==
    IF p.peek_token.token_type # "Semicolon"
       /\ precedence < token_precedence(p.peek_token.token_type)
    THEN Try(parse_infix_part(p, p.peek_token.token_type, left_expr), LAMBDA left :
             infix_loop(left.p, left.val, precedence))
    ELSE PR(p, Some(left_expr))

\* Parser::parse_expression
parse_expression(p, precedence) ==
    Try(parse_prefix_part(p), LAMBDA left : infix_loop(left.p, left.val, precedence))

(***************************************************************************)
(* The programs the model runs, as the parser builds them.                 *)
(***************************************************************************)
Lit(i) == IntegerLiteral(i)
Id(name) == Identifier(name)
E(exp) == ExprStmt(exp)

\* mut fib = fn(n) { if (n < 2) { n } else { fib(n-1) + fib(n-2) } } fib(k)
FibFunction ==
    FunctionLiteral(<<"n">>, Block(<<
        E(If(Infix(Id("n"), "<", Lit(2)),
             Block(<<E(Id("n"))>>),
             Some(Block(<<E(Infix(Call(Id("fib"), <<Infix(Id("n"), "-", Lit(1))>>),
                                  "+",
                                  Call(Id("fib"), <<Infix(Id("n"), "-", Lit(2))>>)))>>))))>>))

FibProgram(k) == <<Let("fib", FibFunction), E(Call(Id("fib"), <<Lit(k)>>))>>

FibPrograms == {FibProgram(k) : k \in 0..MaxK}

\* mut make_counter = fn() { mut c = 0; fn() { c = c + 1; c } }
\* mut f = make_counter(); f(); f()
CounterProgram ==
    <<Let("make_counter",
          FunctionLiteral(<<>>, Block(<<
              Let("c", Lit(0)),
              E(FunctionLiteral(<<>>, Block(<<
                  Assign("c", Infix(Id("c"), "+", Lit(1))),
                  E(Id("c"))>>)))>>))),
      Let("f", Call(Id("make_counter"), <<>>)),
      E(Call(Id("f"), <<>>)),
      E(Call(Id("f"), <<>>))>>

\* programs with an assignment of a literal as their second statement:
\* mut x = 1 x = 2 x;  mut y = 1 x = 2 x;  mut x = true x = 3 x
AssignPrograms ==
    {<<Let(n, v), Assign("x", Lit(w)), E(Id("x"))>> :
        n \in {"x", "y"}, v \in {Lit(1), BooleanLit(TRUE)}, w \in {2, 3}}

\* an assignment inside a function body to a name of the enclosing frame:
\* mut x = 1 mut f = fn() { x = 2; x } f()
AssignInFunctionProgram ==
    <<Let("x", Lit(1)),
      Let("f", FunctionLiteral(<<>>, Block(<<Assign("x", Lit(2)), E(Id("x"))>>))),
      E(Call(Id("f"), <<>>))>>

\* the statements of the programs that exercise eval_program
SeqStatements ==
    {Let("x", Lit(1)),
     Let("x", Infix(Id("x"), "+", Lit(1))),
     E(Id("x")),
     E(Id("y")),
     E(Lit(5)),
     E(Infix(Lit(1), "+", BooleanLit(TRUE))),
     E(Infix(Lit(1), "-", Lit(2))),
     ReturnStmt(Lit(2)),
     ReturnStmt(Id("y")),
     E(If(BooleanLit(TRUE), Block(<<ReturnStmt(Lit(3)), Let("x", Lit(7))>>), None))}

SeqPrograms ==
    {<<>>} \cup {<<a>> : a \in SeqStatements}
           \cup {<<a, b>> : a \in SeqStatements, b \in SeqStatements}
           \cup {<<a, b, c>> : a \in SeqStatements, b \in SeqStatements,
                               c \in SeqStatements}

\* While loops: mut i = 0  while (i < n) { body }  i
\* with bodies that count, fail before or after counting, or return
WhileBodies ==
    {<<Let("i", Infix(Id("i"), "+", Lit(1)))>>,
     <<Let("i", Infix(Id("i"), "+", Lit(1))), E(Id("i"))>>,
     <<Let("i", Infix(Id("i"), "+", Lit(1))), E(Id("y"))>>,
     <<E(Id("y")), Let("i", Infix(Id("i"), "+", Lit(1)))>>,
     <<Let("i", Infix(Id("i"), "+", Lit(1))), E(Infix(Lit(1), "+", BooleanLit(TRUE)))>>,
     <<Let("i", Infix(Id("i"), "+", Lit(1))), ReturnStmt(Id("i"))>>}

WhileProgram(n, body) ==
    <<Let("i", Lit(0)),
      E(While(Infix(Id("i"), "<", Lit(n)), Block(body))),
      E(Id("i"))>>

WhilePrograms == {WhileProgram(n, body) : n \in 0..2, body \in WhileBodies}

\* a While body that makes the loop's first body execution fail
FailingBodies ==
    {<<Let("i", Infix(Id("i"), "+", Lit(1))), E(Id("y"))>>,
     <<E(Id("y")), Let("i", Infix(Id("i"), "+", Lit(1)))>>,
     <<Let("i", Infix(Id("i"), "+", Lit(1))), E(Infix(Lit(1), "+", BooleanLit(TRUE)))>>}

\* the expressions of the subset both backends accept
Atoms == {Lit(1), Lit(2), BooleanLit(TRUE), BooleanLit(FALSE), Id("x")}

InfixOps == {"+", "==", "!=", ">", "<"}

Infixes == {Infix(a, op, b) : a \in {Lit(1), Lit(2), BooleanLit(TRUE), Id("x")},
                              op \in InfixOps,
                              b \in {Lit(1), Lit(2), BooleanLit(TRUE), Id("x")}}

Blocks ==
    {Block(<<>>),
     Block(<<E(Lit(1))>>),
     Block(<<E(Lit(2))>>),
     Block(<<E(Id("x"))>>),
     Block(<<E(Lit(1)), E(Lit(2))>>),
     Block(<<Let("x", Lit(2))>>),
     Block(<<E(Lit(1)), Let("y", Lit(2))>>)}

Conditions ==
    {BooleanLit(TRUE), BooleanLit(FALSE), Lit(1), Id("x"),
     Infix(Lit(1), "<", Lit(2)), Infix(Lit(1), ">", Lit(2))}

Ifs == {If(c, a, b) : c \in Conditions, a \in Blocks,
                      b \in {None} \cup {Some(blk) : blk \in Blocks}}

\* if/else nested in a branch, in a condition and in an operand
NestedIfs ==
    {If(BooleanLit(b), Block(<<E(If(BooleanLit(c), Block(<<E(Lit(1))>>),
                                    Some(Block(<<E(Lit(2))>>))))>>),
        Some(Block(<<E(If(BooleanLit(c), Block(<<E(Lit(1))>>), None))>>))) :
        b \in BOOLEAN, c \in BOOLEAN}
    \cup {If(If(BooleanLit(b), Block(<<E(BooleanLit(FALSE))>>), None),
             Block(<<E(Lit(1))>>), None) : b \in BOOLEAN}
    \cup {Infix(If(BooleanLit(b), Block(<<E(Lit(1))>>), alt), "+", Lit(2)) :
             b \in BOOLEAN, alt \in {None, Some(Block(<<E(Lit(2))>>)),
                                     Some(Block(<<>>))}}

SubsetExpressions == Atoms \cup Infixes \cup Ifs \cup NestedIfs

SubsetStatements ==
    {E(e) : e \in SubsetExpressions} \cup {Let("x", e) : e \in SubsetExpressions}

\* the statements that may come first in a two-statement program
FirstStatements ==
    {Let("x", Lit(1)), Let("x", BooleanLit(TRUE)), E(Lit(1)),
     E(If(BooleanLit(FALSE), Block(<<Let("x", Lit(1))>>), None))}

SubsetPrograms ==
    {<<a>> : a \in SubsetStatements}
    \cup {<<a, b>> : a \in FirstStatements, b \in SubsetStatements}

\* the program main.rs compiles and runs
MainProgram ==
    <<E(If(BooleanLit(TRUE), Block(<<E(Lit(10))>>), Some(Block(<<E(Lit(20))>>))))>>

Programs ==
    FibPrograms \cup {CounterProgram, AssignInFunctionProgram} \cup AssignPrograms
    \cup SeqPrograms \cup WhilePrograms \cup SubsetPrograms \cup {MainProgram}

(***************************************************************************)
(* The state.                                                              *)
(***************************************************************************)
VARIABLES
    program,        \* the parsed program given to eval_program and to compile
    phase,          \* "eval", "compile", "vm": the entry point in progress
    env,            \* eval_program: the environment
    trace,          \* the While events so far (history)
    idx,            \* eval_program: 1-based position of the for loop
    result,         \* eval_program: `result`, at the end the value returned
    evalstatus,     \* "running", "done", or "diverged" / "panicked"
    values,         \* the values of the statements evaluated so far (history)
    compiler,       \* the Compiler, None before Compiler::new
    cidx,           \* compile: 1-based position of the for loop
    cstatus,        \* compile: Running, ResultOk or ResultErr(message)
    vm,             \* the VM, None before VM::new
    ip,             \* run: the instruction pointer
    vres,           \* run: Running, ResultOk, ResultErr(message) or Panic
    executed,       \* run: the offsets of the instructions executed (history)
    symbol_table,   \* the stand-alone symbol table
    defines,        \* the define calls made on it and their results (history)
    resolved,       \* the last resolve call made on it and its result
    source,         \* the characters given to Lexer::new
    parser,         \* the Parser, None before Parser::new
    pstatus,        \* parse_program: "idle", "running" or "done"
    iterations,     \* parse_program: the iterations of its loop so far (history)
    envcall         \* the last call made on the environment and its result

vars == <<program, phase, env, trace, idx, result, evalstatus, values, compiler,
          cidx, cstatus, vm, ip, vres, executed, symbol_table, defines,
          resolved, source, parser, pstatus, iterations, envcall>>

evalVars == <<env, trace, idx, result, evalstatus, values>>
compileVars == <<compiler, cidx, cstatus>>
vmVars == <<vm, ip, vres, executed>>
symVars == <<symbol_table, defines, resolved>>
parseVars == <<source, parser, pstatus, iterations>>

InitPipeline ==
    /\ phase = "eval"
    /\ env = NewEnvironment
    /\ trace = <<>>
    /\ idx = 1
    /\ result = Null
    /\ evalstatus = "running"
    /\ values = <<>>
    /\ compiler = None
    /\ cidx = 1
    /\ cstatus = Running
    /\ vm = None
    /\ ip = 0
    /\ vres = Running
    /\ executed = {}

InitSymbols ==
    /\ symbol_table = NewSymbolTable
    /\ defines = <<>>
    /\ resolved = None

\* no call on an environment yet
NoCall == [op |-> "none"]

InitNoCall == envcall = NoCall

\* no Parser yet
InitNoParser ==
    /\ source = <<>>
    /\ parser = None
    /\ pstatus = "idle"
    /\ iterations = 0

Init ==
    /\ program \in Programs
    /\ InitPipeline
    /\ InitSymbols
    /\ InitNoCall
    /\ InitNoParser

(***************************************************************************)
(* eval_program, one iteration of its for loop per step.                   *)
(***************************************************************************)
\* eval_program_check without the return on an Error
eval_program_check_ReturnOnly(val) ==
    IF val.tag = "Return" THEN [result |-> val.inner, returns |-> TRUE]
    ELSE [result |-> val, returns |-> FALSE]

\* what the loop does with the value of a statement: [result, returns]
eval_program_check(val) ==
    IF val.tag = "Return" THEN [result |-> val.inner, returns |-> TRUE]
    ELSE IF val.tag = "Error" THEN [result |-> val, returns |-> TRUE]
    ELSE [result |-> val, returns |-> FALSE]

EvalStatement ==
    /\ phase = "eval"
    /\ evalstatus = "running"
    /\ idx <= Len(program)
    /\ LET r == eval_statement(program[idx], [env |-> env, trace |-> trace])
           k == eval_program_check(r.val)
       IN /\ env' = r.st.env
          /\ trace' = r.st.trace
          /\ values' = Append(values, r.val)
          /\ IF Aborts(r.val)
             THEN /\ evalstatus' = (IF r.val = Diverged THEN "diverged"
                                    ELSE "panicked")
                  /\ UNCHANGED <<result, idx>>
             ELSE /\ result' = k.result
                  /\ evalstatus' = (IF k.returns THEN "done" ELSE "running")
                  /\ idx' = (IF k.returns THEN idx ELSE idx + 1)
    /\ UNCHANGED <<program, phase, compileVars, vmVars, symVars, parseVars, envcall>>

\* the loop is over: `result` is returned
EvalReturn ==
    /\ phase = "eval"
    /\ evalstatus = "running"
    /\ idx > Len(program)
    /\ evalstatus' = "done"
    /\ UNCHANGED <<program, phase, env, trace, idx, result, values,
                   compileVars, vmVars, symVars, parseVars, envcall>>

(***************************************************************************)
(* Compiler::new and compile, one iteration of its for loop per step.      *)
(***************************************************************************)
CompilerNew ==
    /\ phase = "eval"
    /\ evalstatus # "running"
    /\ phase' = "compile"
    /\ compiler' = NewCompiler
    /\ UNCHANGED <<program, evalVars, cidx, cstatus, vmVars, symVars, parseVars, envcall>>

CompileStatement ==
    /\ phase = "compile"
    /\ cstatus = Running
    /\ cidx <= Len(program)
    /\ LET r == compile_statement(compiler, program[cidx])
       IN /\ compiler' = r.c
          /\ IF r.err.tag = "Some"
             THEN cstatus' = ResultErr(r.err.value) /\ UNCHANGED cidx
             ELSE cidx' = cidx + 1 /\ UNCHANGED cstatus
    /\ UNCHANGED <<program, phase, evalVars, vmVars, symVars, parseVars, envcall>>

CompileReturn ==
    /\ phase = "compile"
    /\ cstatus = Running
    /\ cidx > Len(program)
    /\ cstatus' = ResultOk
    /\ UNCHANGED <<program, phase, evalVars, compiler, cidx, vmVars, symVars, parseVars, envcall>>

(***************************************************************************)
(* VM::new and run, one iteration of its while loop per step.              *)
(***************************************************************************)
VMNew ==
    /\ phase = "compile"
    /\ cstatus = ResultOk
    /\ phase' = "vm"
    /\ vm' = NewVM(compiler)
    /\ ip' = 0
    /\ UNCHANGED <<program, evalVars, compileVars, vres, executed, symVars, parseVars, envcall>>

VMStep ==
    /\ phase = "vm"
    /\ vres = Running
    /\ ip < Len(vm.instructions)
    /\ LET m == step(vm, ip)
       IN /\ vm' = m.vm
          /\ ip' = m.ip
          /\ vres' = m.res
    /\ executed' = executed \cup {ip}
    /\ UNCHANGED <<program, phase, evalVars, compileVars, symVars, parseVars, envcall>>

VMReturn ==
    /\ phase = "vm"
    /\ vres = Running
    /\ ip >= Len(vm.instructions)
    /\ vres' = ResultOk
    /\ UNCHANGED <<program, phase, evalVars, compileVars, vm, ip, executed,
                   symVars, parseVars, envcall>>

Next ==
    \/ EvalStatement
    \/ EvalReturn
    \/ CompilerNew
    \/ CompileStatement
    \/ CompileReturn
    \/ VMNew
    \/ VMStep
    \/ VMReturn

Spec == Init /\ [][Next]_vars

(***************************************************************************)
(* The symbol table on its own: any sequence of define and resolve calls.  *)
(***************************************************************************)
SymNames == {"a", "b", "c"}

InitSym ==
    /\ program = <<>>
    /\ InitPipeline
    /\ InitSymbols
    /\ InitNoCall
    /\ InitNoParser

Define(name) ==
    /\ Len(defines) < MaxDefs
    /\ LET d == define(symbol_table, name)
       IN /\ symbol_table' = d.table
          /\ defines' = Append(defines, [name |-> name, symbol |-> d.symbol])
    /\ UNCHANGED <<program, phase, evalVars, compileVars, vmVars, resolved,
                   parseVars, envcall>>

Resolve(name) ==
    /\ resolved' = Some([name |-> name, symbol |-> resolve(symbol_table, name),
                         at |-> Len(defines)])
    /\ UNCHANGED <<program, phase, evalVars, compileVars, vmVars, symbol_table,
                   defines, parseVars, envcall>>

NextSym ==
    \/ \E name \in SymNames : Define(name)
    \/ \E name \in SymNames : Resolve(name)

SpecSym == InitSym /\ [][NextSym]_vars

(***************************************************************************)
(* The VM on its own: run() on the bytecode of a program of STACK_SIZE or  *)
(* STACK_SIZE + 1 integer literals, and on byte sequences and constant     *)
(* pools that no compiler produced (VM::new takes any Compiler value).     *)
(***************************************************************************)
LiteralProgram(n) == [i \in 1..n |-> E(Lit(1))]

LiteralPrograms == {LiteralProgram(STACK_SIZE), LiteralProgram(STACK_SIZE + 1)}

\* two reads of a global that was never set, then a comparison
NullComparisonStream(op) == <<OP_GET_GLOBAL, 0, 0, OP_GET_GLOBAL, 0, 0, op>>

RawStreams ==
    UNION {[1..n -> 0..MaxByte] : n \in 0..MaxBytes}
    \cup {<<OP_GET_GLOBAL, 0, 0, OP_JUMP, 0, 0>>}
    \cup {NullComparisonStream(OP_EQUAL), NullComparisonStream(OP_NOT_EQUAL)}

\* `if (false) { 1 }` has no alternative: the evaluator gives Null
NullIf == If(BooleanLit(FALSE), Block(<<E(Lit(1))>>), None)

NullComparisonProgram(op) == <<E(Infix(NullIf, op, NullIf))>>

NullComparisonPrograms == {NullComparisonProgram("=="), NullComparisonProgram("!=")}

RawPools == {<<Integer(1), Boolean(FALSE)>>}

InitVM ==
    /\ InitSymbols
    /\ InitNoCall
    /\ InitNoParser
    /\ \/ /\ program \in LiteralPrograms \cup NullComparisonPrograms
          /\ InitPipeline
       \/ /\ program = <<>>
          /\ phase = "vm"
          /\ env = NewEnvironment
          /\ trace = <<>>
          /\ idx = 1
          /\ result = Null
          /\ evalstatus = "running"
          /\ values = <<>>
          /\ compiler = None
          /\ cidx = 1
          /\ cstatus = Running
          /\ \E instructions \in RawStreams, constants \in RawPools :
                vm = NewVM([instructions |-> instructions, constants |-> constants])
          /\ ip = 0
          /\ vres = Running
          /\ executed = {}

SpecVM == InitVM /\ [][Next]_vars

(***************************************************************************)
(* The evaluator on index expressions: eval_program on `left[index]` for   *)
(* arrays, hashes and other values on the left and integers, booleans,     *)
(* strings and other values as the index.                                  *)
(***************************************************************************)
\* the integer i as the parser builds it: -1 is Prefix(-, 1)
IntExpr(i) == IF i < 0 THEN Prefix("-", Lit(0 - i)) ELSE Lit(i)

\* [10, 20, ...] with n elements
ArrayOf(n) == ArrayLiteral([k \in 1..n |-> Lit(10 * k)])

\* {1: 10, 2: 20, ...} with n pairs
HashOf(n) == HashLiteral([k \in 1..n |-> <<Lit(k), Lit(10 * k)>>])

\* {1: 10, true: 20, "a": 30, 1: 11}
SampleHash ==
    HashLiteral(<<<<Lit(1), Lit(10)>>, <<BooleanLit(TRUE), Lit(20)>>,
                  <<StringLiteral("a"), Lit(30)>>, <<Lit(1), Lit(11)>>>>)

EmptyFunction == FunctionLiteral(<<>>, Block(<<>>))

LeftExpressions ==
    {ArrayOf(n) : n \in 0..MaxElems} \cup {HashOf(n) : n \in 0..MaxElems}
    \cup {SampleHash, Lit(5), StringLiteral("a"), BooleanLit(TRUE), NullIf,
          EmptyFunction, Id("missing")}

IndexExpressions ==
    {IntExpr(i) : i \in (0 - 2)..(MaxElems + 1)}
    \cup {BooleanLit(TRUE), BooleanLit(FALSE), StringLiteral("a"),
          StringLiteral("b"), NullIf, ArrayOf(0), HashOf(0), EmptyFunction,
          Id("absent")}

IndexProgram(left, index) == <<E(IndexExpression(left, index))>>

IndexPrograms ==
    {IndexProgram(left, index) : left \in LeftExpressions, index \in IndexExpressions}

InitIndex ==
    /\ program \in IndexPrograms
    /\ InitPipeline
    /\ InitSymbols
    /\ InitNoCall
    /\ InitNoParser

NextEval ==
    \/ EvalStatement
    \/ EvalReturn

SpecIndex == InitIndex /\ [][NextEval]_vars

(***************************************************************************)
(* The compiler on its own: Compiler::new, then compile on a program of up *)
(* to MaxStatements statements, one iteration of its for loop per step.    *)
(***************************************************************************)
AcceptedStatements ==
    {Let("a", Lit(1)), Let("b", BooleanLit(TRUE)), E(Id("a")),
     E(If(BooleanLit(TRUE), Block(<<Let("a", Lit(1))>>), None)),
     E(If(Id("a"), Block(<<E(Lit(1))>>), Some(Block(<<E(Id("b"))>>))))}
    \cup {E(Infix(Lit(1), op, Lit(2))) : op \in {"+", "==", "!=", ">", "<"}}

RefusedStatements ==
    {E(EmptyFunction), E(Call(Id("a"), <<>>)), E(ArrayOf(1)), E(HashOf(1)),
     E(IndexExpression(ArrayOf(1), Lit(0))),
     E(While(BooleanLit(FALSE), Block(<<>>))), E(StringLiteral("s")),
     E(Prefix("-", Lit(1))), E(Prefix("!", BooleanLit(TRUE))),
     ReturnStmt(Lit(1)), Assign("a", Lit(1)), Let("c", StringLiteral("s")),
     E(Id("z")), Let("d", Id("d")),
     E(If(BooleanLit(TRUE), Block(<<ReturnStmt(Lit(1))>>), None)),
     E(Infix(Lit(1), "+", Prefix("-", Lit(2))))}
    \cup {E(Infix(Lit(1), op, Lit(2))) : op \in {"-", "*", "/"}}

CompilePrograms ==
    UNION {[1..n -> AcceptedStatements \cup RefusedStatements] : n \in 0..MaxStatements}

InitCompile ==
    /\ program \in CompilePrograms
    /\ phase = "compile"
    /\ compiler = NewCompiler
    /\ cidx = 1
    /\ cstatus = Running
    /\ env = NewEnvironment
    /\ trace = <<>>
    /\ idx = 1
    /\ result = Null
    /\ evalstatus = "running"
    /\ values = <<>>
    /\ vm = None
    /\ ip = 0
    /\ vres = Running
    /\ executed = {}
    /\ InitSymbols
    /\ InitNoCall
    /\ InitNoParser

NextCompile ==
    \/ CompileStatement
    \/ CompileReturn

SpecCompile == InitCompile /\ [][NextCompile]_vars

(***************************************************************************)
(* The environment on its own: any sequence of new_enclosed, set and get   *)
(* calls, starting from Environment::new.                                  *)
(***************************************************************************)
EnvNames == {"x", "y"}

EnvValues == {Integer(1), Integer(2)}

\* the number of frames of a chain
RECURSIVE Depth(_)
Depth(e) == IF e.outer.tag = "Some" THEN 1 + Depth(e.outer.value) ELSE 1

InitEnv ==
    /\ program = <<>>
    /\ InitPipeline
    /\ InitSymbols
    /\ InitNoCall
    /\ InitNoParser

EnvNewEnclosed ==
    /\ Depth(env) < MaxDepth
    /\ env' = new_enclosed(env)
    /\ envcall' = [op |-> "new_enclosed"]
    /\ UNCHANGED <<program, phase, trace, idx, result, evalstatus, values,
                   compileVars, vmVars, symVars, parseVars>>

EnvSet(name, val) ==
    /\ env' = set(env, name, val)
    /\ envcall' = [op |-> "set", name |-> name, val |-> val]
    /\ UNCHANGED <<program, phase, trace, idx, result, evalstatus, values,
                   compileVars, vmVars, symVars, parseVars>>

EnvGet(name) ==
    /\ envcall' = [op |-> "get", name |-> name, found |-> get(env, name)]
    /\ UNCHANGED <<program, phase, evalVars, compileVars, vmVars, symVars, parseVars>>

NextEnv ==
    \/ EnvNewEnclosed
    \/ \E name \in EnvNames, val \in EnvValues : EnvSet(name, val)
    \/ \E name \in EnvNames : EnvGet(name)

SpecEnv == InitEnv /\ [][NextEnv]_vars

(***************************************************************************)
(* The evaluator on programs that return from inside an expression:        *)
(* eval_program on up to two statements that hold `if (true) { return v }` *)
(* as a Let value, an operand, an element, a return value or in a function *)
(* body.                                                                   *)
(***************************************************************************)
\* if (true) { return v }
ReturnIf(v) == If(BooleanLit(TRUE), Block(<<ReturnStmt(v)>>), None)

\* fn() { body }()
CallOf(body) == Call(FunctionLiteral(<<>>, Block(body)), <<>>)

ReturnStatements ==
    {Let("x", ReturnIf(Lit(1))),
     E(Id("x")),
     Let("y", Lit(5)),
     E(Lit(3)),
     ReturnStmt(ReturnIf(Lit(1))),
     E(ArrayLiteral(<<ReturnIf(Lit(1))>>)),
     E(HashLiteral(<<<<Lit(1), ReturnIf(Lit(2))>>>>)),
     E(Infix(Lit(1), "+", ReturnIf(Lit(2)))),
     E(Prefix("-", ReturnIf(Lit(1)))),
     E(CallOf(<<ReturnStmt(ReturnIf(Lit(1)))>>)),
     E(CallOf(<<E(ReturnIf(Lit(1))), E(Lit(2))>>)),
     E(CallOf(<<E(While(BooleanLit(TRUE), Block(<<ReturnStmt(Lit(1))>>))),
                E(Lit(2))>>))}

ReturnPrograms ==
    {<<a>> : a \in ReturnStatements}
    \cup {<<a, b>> : a \in ReturnStatements, b \in ReturnStatements}

InitReturn ==
    /\ program \in ReturnPrograms
    /\ InitPipeline
    /\ InitSymbols
    /\ InitNoCall
    /\ InitNoParser

SpecReturn == InitReturn /\ [][NextEval]_vars

(***************************************************************************)
(* The evaluator on closures: eval_program on programs that rebind a name  *)
(* after a function literal that reads it was evaluated, and on programs   *)
(* with two functions made in the same environment.                        *)
(***************************************************************************)
SnapshotValues == {Lit(1), Lit(2), BooleanLit(TRUE), StringLiteral("s")}

\* fn() { x }
ReadX == FunctionLiteral(<<>>, Block(<<E(Id("x"))>>))

\* mut x = v  mut f = fn() { x }  mut x = w  f()  x
SnapshotProgram(v, w) ==
    <<Let("x", v), Let("f", ReadX), Let("x", w), E(Call(Id("f"), <<>>)), E(Id("x"))>>

\* mut f = fn() { x }  mut x = w  f()
LateBindingProgram(w) ==
    <<Let("f", ReadX), Let("x", w), E(Call(Id("f"), <<>>))>>

\* mut f = fn() { mut a = v  a }  mut g = fn() { a }  f()  g()
TwoFunctionsProgram(v) ==
    <<Let("f", FunctionLiteral(<<>>, Block(<<Let("a", v), E(Id("a"))>>))),
      Let("g", FunctionLiteral(<<>>, Block(<<E(Id("a"))>>))),
      E(Call(Id("f"), <<>>)),
      E(Call(Id("g"), <<>>))>>

ClosurePrograms ==
    {SnapshotProgram(v, w) : v \in SnapshotValues, w \in SnapshotValues}
    \cup {LateBindingProgram(w) : w \in SnapshotValues}
    \cup {TwoFunctionsProgram(v) : v \in SnapshotValues}

InitClosure ==
    /\ program \in ClosurePrograms
    /\ InitPipeline
    /\ InitSymbols
    /\ InitNoCall
    /\ InitNoParser

SpecClosure == InitClosure /\ [][NextEval]_vars

(***************************************************************************)
(* The evaluator on While loops that count from a start value to a limit,  *)
(* with bodies that end in a value, in a declaration or in a return, at    *)
(* the top of the program, in a function body and as the value of a Let.   *)
(***************************************************************************)
\* i = i + 1 as the body writes it
Increment == Let("i", Infix(Id("i"), "+", Lit(1)))

CountingBodies ==
    {<<Increment>>, <<Increment, E(Id("i"))>>, <<Increment, E(Lit(7))>>}

ReturningBody == <<Increment, ReturnStmt(Id("i"))>>

\* mut i = s  while (i < n) { body }  i
CountingProgram(s, n, body) ==
    <<Let("i", Lit(s)), E(While(Infix(Id("i"), "<", Lit(n)), Block(body))), E(Id("i"))>>

\* fn() { mut i = s  while (i < n) { i = i + 1  return i }  9 }()  8
ReturnInFunctionProgram(s, n) ==
    <<E(CallOf(<<Let("i", Lit(s)),
                 E(While(Infix(Id("i"), "<", Lit(n)), Block(ReturningBody))),
                 E(Lit(9))>>)),
      E(Lit(8))>>

\* mut x = while (true) { return 1 }  5
ReturnInLetProgram ==
    <<Let("x", While(BooleanLit(TRUE), Block(<<ReturnStmt(Lit(1))>>))), E(Lit(5))>>

LoopPrograms ==
    {CountingProgram(s, n, body) :
        s \in 0..MaxIter, n \in 0..MaxIter, body \in CountingBodies \cup {ReturningBody}}
    \cup {ReturnInFunctionProgram(s, n) : s \in 0..MaxIter, n \in 0..MaxIter}
    \cup {ReturnInLetProgram}

InitLoop ==
    /\ program \in LoopPrograms
    /\ InitPipeline
    /\ InitSymbols
    /\ InitNoCall
    /\ InitNoParser

SpecLoop == InitLoop /\ [][NextEval]_vars

(***************************************************************************)
(* The pipeline on comparisons: `l < r` and `l > r` for integer literals   *)
(* and for operands that are not integers.                                 *)
(***************************************************************************)
ComparisonOperands ==
    {Lit(k) : k \in 0..MaxOperand} \cup {BooleanLit(TRUE), BooleanLit(FALSE), NullIf}

ComparisonProgram(l, op, r) == <<E(Infix(l, op, r))>>

ComparisonPrograms ==
    {ComparisonProgram(l, op, r) :
        l \in ComparisonOperands, op \in {"<", ">"}, r \in ComparisonOperands}

InitComparison ==
    /\ program \in ComparisonPrograms
    /\ InitPipeline
    /\ InitSymbols
    /\ InitNoCall
    /\ InitNoParser

SpecComparison == InitComparison /\ [][Next]_vars

(***************************************************************************)
(* The pipeline on declarations: programs of up to three statements that   *)
(* declare, declare again and read the globals x and y, at the top level   *)
(* and inside an if that runs or does not run.                             *)
(***************************************************************************)
GlobalStatements ==
    {Let("x", Lit(1)),
     Let("x", Infix(Id("x"), "+", Lit(1))),
     Let("y", Lit(2)),
     Let("y", Id("x")),
     E(Id("x")),
     E(If(BooleanLit(TRUE), Block(<<Let("x", Lit(7))>>), None)),
     E(If(BooleanLit(FALSE), Block(<<Let("x", Lit(5))>>), None))}

GlobalPrograms ==
    {<<a>> : a \in GlobalStatements}
    \cup {<<a, b>> : a \in GlobalStatements, b \in GlobalStatements}
    \cup {<<a, b, c>> : a \in GlobalStatements, b \in GlobalStatements,
                        c \in GlobalStatements}

InitGlobals ==
    /\ program \in GlobalPrograms
    /\ InitPipeline
    /\ InitSymbols
    /\ InitNoCall
    /\ InitNoParser

SpecGlobals == InitGlobals /\ [][Next]_vars

(***************************************************************************)
(* The evaluator on calls: mut x = 1  mut y = 2  mut f = fn(params) { body }*)
(* f(args)  x, for parameters named like the caller's variables or not and *)
(* bodies that declare, read and return.                                   *)
(***************************************************************************)
CallParameters == {<<>>, <<"x">>, <<"x", "y">>, <<"z">>}

CallBodies ==
    {<<E(Id("x"))>>,
     <<Let("x", Lit(9)), E(Id("x"))>>,
     <<Let("w", Lit(9)), Let("y", Id("w"))>>,
     <<E(If(BooleanLit(TRUE), Block(<<Let("y", Lit(8)), ReturnStmt(Id("y"))>>), None))>>}

CallArguments == {<<>>, <<Lit(5)>>, <<Lit(5), Id("x")>>}

CallProgram(parameters, body, arguments) ==
    <<Let("x", Lit(1)), Let("y", Lit(2)),
      Let("f", FunctionLiteral(parameters, Block(body))),
      E(Call(Id("f"), arguments)),
      E(Id("x"))>>

CallPrograms ==
    {CallProgram(parameters, body, arguments) :
        parameters \in CallParameters, body \in CallBodies, arguments \in CallArguments}

InitCall ==
    /\ program \in CallPrograms
    /\ InitPipeline
    /\ InitSymbols
    /\ InitNoCall
    /\ InitNoParser

SpecCall == InitCall /\ [][NextEval]_vars

(***************************************************************************)
(* The pipeline run to its end: the programs of the subset the compiler    *)
(* accepts, the declarations, and ifs nested in both branches of an if.    *)
(* The loop of run() keeps taking its next step until it returns.          *)
(***************************************************************************)
NestedConditions == {BooleanLit(TRUE), BooleanLit(FALSE), Lit(0), NullIf}

\* if (c1) { if (c2) { 1 } else { 2 } } else { if (c3) { 3 } }
NestedIfProgram(c1, c2, c3) ==
    <<E(If(c1,
           Block(<<E(If(c2, Block(<<E(Lit(1))>>), Some(Block(<<E(Lit(2))>>))))>>),
           Some(Block(<<E(If(c3, Block(<<E(Lit(3))>>), None))>>))))>>

NestedIfPrograms ==
    {NestedIfProgram(c1, c2, c3) : c1 \in NestedConditions, c2 \in NestedConditions,
                                   c3 \in NestedConditions}

RunPrograms == SubsetPrograms \cup GlobalPrograms \cup NestedIfPrograms \cup {MainProgram}

InitRun ==
    /\ program \in RunPrograms
    /\ InitPipeline
    /\ InitSymbols
    /\ InitNoCall
    /\ InitNoParser

SpecRun == InitRun /\ [][Next]_vars /\ WF_vars(VMStep \/ VMReturn)

(***************************************************************************)
(* The parser on its own: Lexer::new and Parser::new on an input, then     *)
(* parse_program, one iteration of its while loop per step.                *)
(***************************************************************************)
\* input.chars().collect()
Chars(str) == [i \in 1..Len(str) |-> SubSeq(str, i, i)]

BinaryOperators == {"==", "!=", "<", ">", "+", "-", "*", "/"}

OperandName(i) == SubSeq("abcdefgh", i, i)

\* the input `a op1 b op2 c ...` for a sequence of operators
RECURSIVE ChainSource(_, _)
ChainSource(ops, n) ==
    IF n = 0 THEN OperandName(1)
    ELSE ChainSource(ops, n - 1) \o " " \o ops[n] \o " " \o OperandName(n + 1)

OperatorSequences == UNION {[1..n -> BinaryOperators] : n \in 0..MaxOperators}

ChainSources == {ChainSource(ops, Len(ops)) : ops \in OperatorSequences}

Words == {"if", "mut", "a", "1", "=", "(", ")", "[", "]", "{", "}", "!", ","}

\* the words of a sequence, separated by blanks
RECURSIVE JoinWords(_, _)
JoinWords(ws, n) ==
    IF n = 0 THEN ""
    ELSE IF n = 1 THEN ws[1]
    ELSE JoinWords(ws, n - 1) \o " " \o ws[n]

WordSources ==
    {JoinWords(ws, Len(ws)) : ws \in UNION {[1..n -> Words] : n \in 0..MaxWords}}

Sources ==
    ChainSources \cup WordSources
    \cup {"1 + 2 * 3", "!x", "a != b", "!true == false", "-a * b",
          "if (a) { 1 } else { 2 }", "mut a = 1; a", "a(1, 2",
          "mut h = {} h", "mut h = {1: 2} h", "{} h", "{1: 2} h"}

InitParse ==
    /\ \E str \in Sources :
          /\ source = Chars(str)
          /\ parser = NewParser(NewLexer(Chars(str)))
    /\ pstatus = "running"
    /\ iterations = 0
    /\ program = <<>>
    /\ phase = "parse"
    /\ env = NewEnvironment
    /\ trace = <<>>
    /\ idx = 1
    /\ result = Null
    /\ evalstatus = "running"
    /\ values = <<>>
    /\ compiler = None
    /\ cidx = 1
    /\ cstatus = Running
    /\ vm = None
    /\ ip = 0
    /\ vres = Running
    /\ executed = {}
    /\ InitSymbols
    /\ InitNoCall

\* an iteration of parse_program without the next_token() that ends it
ParseStatement_NoAdvance ==
    /\ phase = "parse"
    /\ pstatus = "running"
    /\ parser.cur_token.token_type # "EOF"
    /\ Bind(parse_statement(parser), LAMBDA stmt :
            /\ program' = (IF stmt.val.tag = "Some"
                           THEN Append(program, stmt.val.value)
                           ELSE program)
            /\ parser' = stmt.p)
    /\ iterations' = iterations + 1
    /\ UNCHANGED <<phase, evalVars, compileVars, vmVars, symVars, source, pstatus,
                   envcall>>

\* one iteration of the while loop of parse_program
ParseStatement ==
    /\ phase = "parse"
    /\ pstatus = "running"
    /\ parser.cur_token.token_type # "EOF"
    /\ Bind(parse_statement(parser), LAMBDA stmt :
            /\ program' = (IF stmt.val.tag = "Some"
                           THEN Append(program, stmt.val.value)
                           ELSE program)
            /\ parser' = next_token(stmt.p))
    /\ iterations' = iterations + 1
    /\ UNCHANGED <<phase, evalVars, compileVars, vmVars, symVars, source, pstatus,
                   envcall>>

\* the loop is over: `program` is returned
ParseReturn ==
    /\ phase = "parse"
    /\ pstatus = "running"
    /\ parser.cur_token.token_type = "EOF"
    /\ pstatus' = "done"
    /\ UNCHANGED <<program, phase, evalVars, compileVars, vmVars, symVars, source,
                   parser, iterations, envcall>>

NextParse ==
    \/ ParseStatement
    \/ ParseReturn

SpecParse == InitParse /\ [][NextParse]_vars

(***************************************************************************)
(* parse_program run to its end on inputs cut off after any character and  *)
(* on unbalanced and malformed ones.  The loop of parse_program keeps      *)
(* taking its next iteration until it returns.                             *)
(***************************************************************************)
Prefixes(str) == {SubSeq(str, 1, n) : n \in 0..Len(str)}

CompleteSources ==
    {"mut h = {\"a\": 1, b: [1, 2]}; h[\"a\"]",
     "fn(x, y) { while (x < y) { return f(x, y) } } // end",
     "if (a) { {1: 2, 3: 4} } else { [a, b](1) }"}

UnbalancedSources ==
    {")]}", "{ { {", "((a", "{a: , }", "{a 1}", "{a: 1 b}", "{1: 2, ", "f(a, , b)",
     "[1 2]", "a = = 1", "mut = 1", "mut a 1", "a + * b", "if a { 1 }",
     "fn(a, { a }", "while (a { a", "return", "a[1", "@ a", "\"abc", "a // b"}

TruncatedSources == UNION {Prefixes(str) : str \in CompleteSources} \cup UnbalancedSources

InitParseRun ==
    /\ \E str \in TruncatedSources :
          /\ source = Chars(str)
          /\ parser = NewParser(NewLexer(Chars(str)))
    /\ pstatus = "running"
    /\ iterations = 0
    /\ program = <<>>
    /\ phase = "parse"
    /\ env = NewEnvironment
    /\ trace = <<>>
    /\ idx = 1
    /\ result = Null
    /\ evalstatus = "running"
    /\ values = <<>>
    /\ compiler = None
    /\ cidx = 1
    /\ cstatus = Running
    /\ vm = None
    /\ ip = 0
    /\ vres = Running
    /\ executed = {}
    /\ InitSymbols
    /\ InitNoCall

\* the loop of parse_program takes one more iteration
ParseIteration ==
    /\ phase = "parse"
    /\ pstatus = "running"
    /\ parser.cur_token.token_type # "EOF"
    /\ iterations' = iterations + 1

SpecParseRun ==
    /\ InitParseRun
    /\ [][NextParse]_vars
    /\ WF_iterations(ParseIteration)
    /\ WF_vars(ParseReturn)

(***************************************************************************)
(* Properties of the evaluator.                                            *)
(***************************************************************************)
RECURSIVE fibonacci(_)
fibonacci(k) == IF k < 2 THEN k ELSE fibonacci(k - 1) + fibonacci(k - 2)

\* the number of occurrences of an event in a trace
RECURSIVE Count(_, _)
Count(tr, event) ==
    IF tr = <<>> THEN 0
    ELSE (IF tr[1] = event THEN 1 ELSE 0) + Count(Tail(tr), event)

\* the evaluation state after the first k statements of a program, evaluated
\* one after the other from the empty environment
RECURSIVE StateAfter(_, _)
StateAfter(prog, k) ==
    IF k = 0 THEN [env |-> NewEnvironment, trace |-> <<>>]
    ELSE eval_statement(prog[k], StateAfter(prog, k - 1)).st

\* C1: a function bound with `mut fib = fn(n) {...}` calls itself by name:
\* for every k in 0..MaxK the program FibProgram(k) ends with the value
\* Integer(fibonacci(k)), never with an Error.
C1_RecursiveCallByName ==
    \A k \in 0..MaxK :
        (program = FibProgram(k) /\ evalstatus # "running")
            => (evalstatus = "done" /\ result = Integer(fibonacci(k)))

\* C2: a closure keeps mutable state across calls: in CounterProgram the
\* first call f() evaluates to 1 and the second call f() to 2.
C2_ClosureKeepsState ==
    (program = CounterProgram /\ evalstatus # "running")
        => (/\ evalstatus = "done"
            /\ Len(values) = 4
            /\ values[3] = Integer(1)
            /\ values[4] = Integer(2))

\* C3: the statement Assign(name, value) changes the binding of name: once
\* the assignment `x = w` of an AssignProgram has been evaluated, a lookup of
\* x yields Integer(w), whether x was bound before or not; and an assignment
\* in a function body to a name of an enclosing frame is seen by the lookup
\* that follows it.
C3_AssignChangesBinding ==
    /\ (program \in AssignPrograms /\ Len(values) >= 2)
          => get(env, "x") = Some(Integer(program[2].value.value))
    /\ (program = AssignInFunctionProgram /\ evalstatus # "running")
          => (evalstatus = "done" /\ result = Integer(2))

\* C4: eval_program evaluates the statements in order and stops at the first
\* one whose value is Return(v) or Error(msg): no value before the last one
\* evaluated is a Return or an Error, the environment is the one the
\* evaluated statements left, and at the end the result is v for Return(v),
\* the Error itself for an Error, and otherwise the value of the last
\* statement of the program (Null for the empty program).
C4_StopsAtFirstReturnOrError ==
    LET n == Len(values)
    IN /\ n <= Len(program)
       /\ \A i \in 1..n :
             values[i] = eval_statement(program[i], StateAfter(program, i - 1)).val
       /\ \A i \in 1..(n - 1) : ~ReturnOrError(values[i])
       /\ env = StateAfter(program, n).env
       /\ evalstatus = "done" =>
             IF n > 0 /\ values[n].tag = "Return" THEN result = values[n].inner
             ELSE IF n > 0 /\ values[n].tag = "Error" THEN result = values[n]
             ELSE /\ n = Len(program)
                  /\ result = (IF n = 0 THEN Null ELSE values[n])

\* an Error ended a program before its last statement, after a statement
\* that changed the environment
C4_Witness ==
    /\ evalstatus = "done"
    /\ Len(values) = 2
    /\ Len(program) = 3
    /\ values[2].tag = "Error"
    /\ result = values[2]
    /\ "x" \in DOMAIN env.store

\* C5: an Error unwinds a While like a Return: when the first execution of
\* the body of `while (i < n) { body }` yields an Error, the body has run
\* once, the condition has been evaluated once, the While evaluates to that
\* Error and the program ends with it.
C5_ErrorEndsWhile ==
    \A n \in 1..2 : \A body \in FailingBodies :
        (program = WhileProgram(n, body) /\ Len(values) >= 2)
            => (/\ values[2].tag = "Error"
                /\ Count(trace, "body") = 1
                /\ Count(trace, "cond") = 1
                /\ evalstatus = "done"
                /\ result = values[2])

(***************************************************************************)
(* Properties of the compiler and the VM.                                  *)
(***************************************************************************)
\* the number of operand bytes that follow an opcode (0 for an unknown one)
OperandBytes(op) ==
    LET def == lookup(op)
    IN IF def.tag = "Some" /\ Len(def.value) > 0 THEN def.value[1] ELSE 0

\* the offsets at which the instructions of a stream begin, from offset p on
RECURSIVE InstructionStarts(_, _)
InstructionStarts(ins, p) ==
    IF p >= Len(ins) THEN {}
    ELSE {p} \cup InstructionStarts(ins, p + 1 + OperandBytes(ins[p + 1]))

\* the offsets of the instructions with one of the given opcodes
OffsetsOf(ins, ops) == {p \in InstructionStarts(ins, 0) : ins[p + 1] \in ops}

\* the operand of the instruction at offset p
OperandAt(ins, p) == read_u16(ins, p + 1)

Jumps(ins) == OffsetsOf(ins, {OP_JUMP, OP_JUMP_NOT_TRUTHY})

\* the operands of the OpConstant instructions, in the order of the stream
RECURSIVE ConstantOperands(_, _)
ConstantOperands(ins, p) ==
    IF p >= Len(ins) THEN <<>>
    ELSE (IF ins[p + 1] = OP_CONSTANT THEN <<OperandAt(ins, p)>> ELSE <<>>)
         \o ConstantOperands(ins, p + 1 + OperandBytes(ins[p + 1]))

\* the values an expression, a block or a statement makes the compiler add
\* to the pool, in the order in which it compiles them
RECURSIVE PoolValuesOf(_), PoolValuesOfBlock(_, _)
PoolValuesOf(exp) ==
    CASE exp.type = "IntegerLiteral" -> <<Integer(exp.value)>>
      [] exp.type = "Infix" ->
           PoolValuesOf(InfixOperands(exp)[1]) \o PoolValuesOf(InfixOperands(exp)[2])
      [] exp.type = "If" ->
           PoolValuesOf(exp.condition)
           \o PoolValuesOfBlock(exp.consequence.statements, 1)
           \o (IF exp.alternative.tag = "Some"
               THEN PoolValuesOfBlock(exp.alternative.value.statements, 1)
               ELSE <<Null>>)
      [] OTHER -> <<>>

PoolValuesOfBlock(statements, i) ==
    IF i > Len(statements) THEN <<>>
    ELSE (IF statements[i].type = "Let" THEN PoolValuesOf(statements[i].value)
          ELSE IF statements[i].type = "Expression"
          THEN PoolValuesOf(statements[i].expression)
          ELSE <<>>)
         \o PoolValuesOfBlock(statements, i + 1)

IsPrefix(a, b) == Len(a) <= Len(b) /\ SubSeq(b, 1, Len(a)) = a

\* both entry points have returned for the program
BothDone == evalstatus = "done" /\ phase = "vm" /\ vres # Running

\* C6: the two backends are interchangeable on the compilable subset: when
\* compile() returned Ok, run() returns Err exactly when eval_program returns
\* an Error, and otherwise the value at stack_top() is the value eval_program
\* returns.  Stated for the programs that are one infix expression statement,
\* where each backend leaves one value.
C6_BackendsAgree ==
    (BothDone /\ Len(program) = 1 /\ program[1].type = "Expression"
        /\ program[1].expression.type = "Infix")
        => /\ vres.tag \in {"Ok", "Err"}
           /\ (vres.tag = "Err") <=> is_error(result)
           /\ vres.tag = "Ok" => stack_top(vm) = Some(result)

C8_ExpressionGrowsStackByOne ==
    (phase = "vm" /\ vres = ResultOk /\ Len(program) = 1
        /\ program[1].type = "Expression")
        => vm.sp = 1

\* the pool values of the statements compile() has finished
RECURSIVE CompiledPoolValues(_)
CompiledPoolValues(k) ==
    IF k = 0 THEN <<>>
    ELSE CompiledPoolValues(k - 1) \o PoolValuesOfBlock(<<program[k]>>, 1)

PoolIntact(c) ==
    LET operands == ConstantOperands(c.instructions, 0)
        referenced == [k \in 1..Len(operands) |->
                          IF operands[k] < Len(c.constants)
                          THEN c.constants[operands[k] + 1] ELSE None]
        expected == CompiledPoolValues(cidx' - 1)
    IN /\ \A k \in 1..Len(operands) : operands[k] < Len(c.constants)
       /\ IsPrefix(expected, referenced)
       /\ cstatus' = ResultOk => expected = referenced

\* C9: the constant pool is append-only and every reference into it is valid:
\* every compile step leaves the old pool as a prefix of the new one, every
\* OpConstant operand is below constants.len(), and the constants the
\* OpConstant instructions refer to are, in order, the values they were
\* emitted for (Integer(v) for a literal v, Null for an else-less if).
C9_ConstantPoolIntact ==
    [][phase' # "eval" =>
          /\ PoolIntact(compiler')
          /\ phase # "eval" => IsPrefix(compiler.constants, compiler'.constants)]_vars

\* a compiled program whose pool holds integers and the Null of an else-less if
C9_Witness ==
    /\ cstatus = ResultOk
    /\ Len(compiler.constants) >= 3
    /\ \E k \in 1..Len(compiler.constants) : compiler.constants[k] = Null
    /\ \E k \in 1..Len(compiler.constants) : compiler.constants[k].tag = "Integer"

(***************************************************************************)
(* Properties of the symbol table.                                         *)
(***************************************************************************)
\* the positions of the define calls of a name
DefinesOf(name) == {k \in 1..Len(defines) : defines[k].name = name}

\* what resolve(name) has to return after the first n define calls
ExpectedSymbol(name, n) ==
    LET ks == {k \in DefinesOf(name) : k <= n}
    IN IF ks = {} THEN None
       ELSE Some(Symbol(name, (CHOOSE k \in ks : \A j \in ks : j <= k) - 1))

\* C10: after n define calls num_definitions is n and the k-th call returned
\* index k - 1, also for a name defined before; resolve(name) returns the
\* symbol of the most recent define of the name and None for a name never
\* defined.
C10_SymbolIndices ==
    /\ symbol_table.num_definitions = Len(defines)
    /\ \A k \in 1..Len(defines) :
          defines[k].symbol = Symbol(defines[k].name, k - 1)
    /\ \A name \in SymNames :
          resolve(symbol_table, name) = ExpectedSymbol(name, Len(defines))
    /\ resolved.tag = "Some" =>
          resolved.value.symbol = ExpectedSymbol(resolved.value.name, resolved.value.at)

\* a name was defined, defined again after another define, and then resolved
C10_Witness ==
    /\ Len(defines) >= 3
    /\ defines[1].name = defines[3].name
    /\ defines[2].name # defines[1].name
    /\ resolved.tag = "Some"
    /\ resolved.value.at = 3
    /\ resolved.value.name = defines[1].name

(***************************************************************************)
(* Properties of the compiled if/else.                                     *)
(***************************************************************************)
\* a block that is one expression statement over an atom
IsAtomBlock(block) ==
    /\ Len(block.statements) = 1
    /\ block.statements[1].type = "Expression"
    /\ block.statements[1].expression \in Atoms \cup {Lit(10), Lit(20)}

\* a program that ends in an if/else whose branches are single atoms, after
\* at most one declaration or literal
IsSimpleIfProgram(prog) ==
    /\ Len(prog) \in 1..2
    /\ Len(prog) = 2 =>
          prog[1] \in {Let("x", Lit(1)), Let("x", BooleanLit(TRUE)), E(Lit(1))}
    /\ prog[Len(prog)].type = "Expression"
    /\ prog[Len(prog)].expression.type = "If"
    /\ IsAtomBlock(prog[Len(prog)].expression.consequence)
    /\ prog[Len(prog)].expression.alternative.tag = "Some" =>
          IsAtomBlock(prog[Len(prog)].expression.alternative.value)

\* the value of an expression in the environment the program leaves
ValueOf(exp) == eval(exp, [env |-> env, trace |-> <<>>]).val

Falsey(v) == v = Null \/ v = Boolean(FALSE)

\* the offset of the last OpJumpNotTruthy of a stream
LastJumpNotTruthy(ins) ==
    LET ps == OffsetsOf(ins, {OP_JUMP_NOT_TRUTHY})
    IN CHOOSE p \in ps : \A q \in ps : q <= p

\* C11: for `if (c) { A } else { B }` with single expressions A and B,
\* compiled and run, run() returns Ok, exactly one branch is executed, and
\* stack_top() is the value of A for a truthy c, the value of B for a falsey
\* c, and Null for a falsey c without else.
C11_IfElseSelectsBranch ==
    (phase = "vm" /\ vres # Running /\ IsSimpleIfProgram(program)) =>
        LET node == program[Len(program)].expression
            c == ValueOf(node.condition)
            A == node.consequence.statements[1].expression
            jnt == LastJumpNotTruthy(vm.instructions)
            consequence_pos == jnt + 3
            alternative_pos == OperandAt(vm.instructions, jnt)
        IN /\ vres = ResultOk
           /\ (consequence_pos \in executed) <=> ~Falsey(c)
           /\ (alternative_pos \in executed) <=> Falsey(c)
           /\ stack_top(vm) =
                 Some(IF ~Falsey(c) THEN ValueOf(A)
                      ELSE IF node.alternative.tag = "None" THEN Null
                      ELSE ValueOf(node.alternative.value.statements[1].expression))

\* `if (true) { 10 } else { 20 }` has run and left Integer(10)
C11_Witness ==
    /\ program = MainProgram
    /\ phase = "vm"
    /\ vres = ResultOk
    /\ stack_top(vm) = Some(Integer(10))
    /\ Cardinality(executed) = 4

(***************************************************************************)
(* Properties of the VM on any bytecode.                                   *)
(***************************************************************************)
\* C12: run() ends with Ok or Err(message) for every instruction byte
\* sequence and constant pool, never with a panic: an unknown opcode, operand
\* bytes cut off by the end of the stream and an OpConstant index outside
\* the pool are reported as Err.
C12_RunNeverPanics == vres # Panic

\* the opcodes whose instruction pushes without popping first
PushingOps == {OP_CONSTANT, OP_TRUE, OP_FALSE, OP_GET_GLOBAL}

\* the step from this state executes a well-formed pushing instruction
\* while the stack is full
PushesOnFullStack ==
    /\ phase = "vm"
    /\ vres = Running
    /\ ip < Len(vm.instructions)
    /\ vm.sp = STACK_SIZE
    /\ vm.instructions[ip + 1] \in PushingOps
    /\ step(vm, ip).res # Panic

\* sp and the slots written stay inside the preallocated stack
StackPointerInRange(machine) ==
    /\ machine.sp \in 0..STACK_SIZE
    /\ DOMAIN machine.stack \subseteq 0..(STACK_SIZE - 1)

\* C13: 0 <= sp <= STACK_SIZE in every state run() reaches; a push at
\* sp = STACK_SIZE makes run() return Err("Stack Overflow") with sp and the
\* stack as they were; the program of STACK_SIZE + 1 integer literals fails
\* with that error and the program of STACK_SIZE literals returns Ok with
\* sp = STACK_SIZE.
C13_StackOverflow ==
    [][/\ phase' = "vm" => StackPointerInRange(vm')
       /\ PushesOnFullStack =>
            /\ vres' = ResultErr("Stack Overflow")
            /\ vm'.sp = vm.sp
            /\ vm'.stack = vm.stack
       /\ (phase = "vm" /\ vres' # Running /\ program \in LiteralPrograms) =>
            /\ vm'.sp = STACK_SIZE
            /\ vres' = (IF Len(program) > STACK_SIZE
                        THEN ResultErr("Stack Overflow") ELSE ResultOk)]_vars

\* a loop that pushes a global has filled the stack and failed on the next
\* push
C13_Witness ==
    /\ phase = "vm"
    /\ vm.instructions = <<OP_GET_GLOBAL, 0, 0, OP_JUMP, 0, 0>>
    /\ vres = ResultErr("Stack Overflow")
    /\ vm.sp = STACK_SIZE

\* the step from this state executes the opcode op on an empty stack
ExecutesOnEmptyStack(op) ==
    /\ phase = "vm"
    /\ vres = Running
    /\ ip < Len(vm.instructions)
    /\ vm.sp = 0
    /\ vm.instructions[ip + 1] = op

\* C14: a pop at sp = 0 yields Null and changes neither sp nor the stack;
\* on an empty stack OpPop changes nothing, OpSetGlobal stores Null, OpEqual
\* pushes Boolean(true), and OpAdd and OpGreaterThan return their
\* type-mismatch Err.
C14_PopOnEmptyStack ==
    [][/\ (phase = "vm" /\ vm.sp = 0) => pop(vm) = [vm |-> vm, val |-> Null]
       /\ ExecutesOnEmptyStack(OP_POP) =>
            vres' = Running /\ vm' = vm
       /\ (ExecutesOnEmptyStack(OP_SET_GLOBAL) /\ HasOperand(vm, ip + 1)) =>
            /\ vres' = Running
            /\ vm'.sp = 0
            /\ vm'.stack = vm.stack
            /\ ReadGlobal(vm', OperandAt(vm.instructions, ip)) = Null
       /\ ExecutesOnEmptyStack(OP_EQUAL) =>
            /\ vres' = Running
            /\ vm'.sp = 1
            /\ stack_top(vm') = Some(Boolean(TRUE))
       /\ ExecutesOnEmptyStack(OP_ADD) =>
            /\ vres' = ResultErr("Type mismatch or unsupported operation")
            /\ vm' = vm
       /\ ExecutesOnEmptyStack(OP_GREATER_THAN) =>
            /\ vres' = ResultErr("Type mismatch for >")
            /\ vm' = vm]_vars

\* OpEqual was executed on an empty stack, and OpPop on the stack that the
\* OpPop before it had emptied
C14_Witness ==
    /\ phase = "vm"
    /\ vm.instructions = <<OP_EQUAL, OP_POP, OP_POP>>
    /\ executed = {0, 1, 2}
    /\ vm.sp = 0
    /\ ReadSlot(vm.stack, 0) = Boolean(TRUE)

(***************************************************************************)
(* Properties of the lexer and the parser.                                 *)
(***************************************************************************)
\* the precedence level of a binary operator: Equals, LessGreater, Sum,
\* Product
Level(op) ==
    CASE op \in {"==", "!="} -> 1
      [] op \in {"<", ">"} -> 2
      [] op \in {"+", "-"} -> 3
      [] op \in {"*", "/"} -> 4

\* the tree of operands lo..hi joined by ops[lo] .. ops[hi - 1], ops[i]
\* standing between operand i and operand i + 1: its root is the rightmost
\* operator of the lowest level
RECURSIVE ExpectedTree(_, _, _)
ExpectedTree(ops, lo, hi) ==
    IF lo = hi THEN Identifier(OperandName(lo))
    ELSE LET k == CHOOSE i \in lo..(hi - 1) :
                     /\ \A j \in lo..(hi - 1) : Level(ops[i]) <= Level(ops[j])
                     /\ \A j \in (i + 1)..(hi - 1) : Level(ops[i]) < Level(ops[j])
         IN Infix(ExpectedTree(ops, lo, k), ops[k], ExpectedTree(ops, k + 1, hi))

\* the words of the first n characters of an input, blanks separating them
RECURSIVE SplitWords(_, _)
SplitWords(cs, n) ==
    IF n = 0 THEN <<"">>
    ELSE LET ws == SplitWords(cs, n - 1)
         IN IF cs[n] = " " THEN Append(ws, "")
            ELSE [ws EXCEPT ![Len(ws)] = @ \o cs[n]]

\* the words are the operands a, b, c, ... joined by binary operators
IsChain(ws) ==
    /\ Len(ws) % 2 = 1
    /\ \A i \in 1..Len(ws) :
          IF i % 2 = 1 THEN ws[i] = OperandName((i + 1) \div 2)
          ELSE ws[i] \in BinaryOperators

OperatorsOf(ws) == [i \in 1..(Len(ws) \div 2) |-> ws[2 * i]]

\* C15: a sequence of operands joined by the binary operators parses to one
\* expression statement in which an operator of higher precedence is nested
\* below an adjacent one of lower precedence and operators of equal
\* precedence associate to the left; `1 + 2 * 3` parses to
\* Infix(+, 1, Infix(*, 2, 3)).
C15_PrecedenceAndAssociativity ==
    (phase = "parse" /\ pstatus = "done") =>
        /\ IsChain(SplitWords(source, Len(source))) =>
              LET ops == OperatorsOf(SplitWords(source, Len(source)))
              IN program = <<E(ExpectedTree(ops, 1, Len(ops) + 1))>>
        /\ source = Chars("1 + 2 * 3") =>
              program = <<E(Infix(Lit(1), "+", Infix(Lit(2), "*", Lit(3))))>>

\* `a - b - c` was parsed to Infix(-, Infix(-, a, b), c)
C15_Witness ==
    /\ phase = "parse"
    /\ pstatus = "done"
    /\ source = Chars("a - b - c")
    /\ program = <<E(Infix(Infix(Id("a"), "-", Id("b")), "-", Id("c")))>>

(***************************************************************************)
(* C16: parse errors                                                       *)
(***************************************************************************)

\* inputs that violate the grammar: `if` without `(`, `mut` without an
\* identifier and `=`, an unclosed call, array and group, an Illegal token
MalformedSources ==
    {Chars(str) : str \in {"if a", "mut 1", "a ( 1", "[ 1", "( 1", "!"}}

\* C16: after parse_program on an input that violates the grammar,
\* Parser.errors is not empty.
C16_ErrorsRecorded ==
    (phase = "parse" /\ pstatus = "done" /\ source \in MalformedSources) =>
        parser.errors # <<>>

(***************************************************************************)
(* C17: `!` and `!=`                                                       *)
(***************************************************************************)

\* C17: `!=` is lexed as one NotEq token, so `a != b` parses to
\* Infix(a, !=, b); a `!` not followed by `=` is lexed as a Bang token, so
\* `!x` parses to Prefix(!, x).
C17_BangAndNotEq ==
    /\ (phase = "parse" /\ source = Chars("a != b")) =>
          /\ program = <<>> /\ pstatus = "running" =>
                parser.peek_token = Token("NotEq", "!=")
          /\ pstatus = "done" =>
                program = <<E(Infix(Id("a"), "!=", Id("b")))>>
    /\ (phase = "parse" /\ source = Chars("!x")) =>
          /\ program = <<>> /\ pstatus = "running" =>
                parser.cur_token.token_type = "Bang"
          /\ pstatus = "done" =>
                program = <<E(Prefix("!", Id("x")))>>

(***************************************************************************)
(* C18: Null compared with Null                                            *)
(***************************************************************************)

\* the evaluator's infix `==` and `!=` over two Null values
NullComparisonInEvaluator ==
    /\ (program = NullComparisonProgram("==") /\ evalstatus = "done") =>
          result = Boolean(TRUE)
    /\ (program = NullComparisonProgram("!=") /\ evalstatus = "done") =>
          result = Boolean(FALSE)

\* the VM's OpEqual and OpNotEqual over two Null values
NullComparisonInVM ==
    (phase = "vm" /\ vm # None /\ vres = ResultOk) =>
        /\ vm.instructions = NullComparisonStream(OP_EQUAL) =>
              stack_top(vm) = Some(Boolean(TRUE))
        /\ vm.instructions = NullComparisonStream(OP_NOT_EQUAL) =>
              stack_top(vm) = Some(Boolean(FALSE))

\* C18: Null == Null is Boolean(true) and Null != Null is Boolean(false),
\* in the evaluator and in the VM.
C18_NullEqualsNull == NullComparisonInEvaluator /\ NullComparisonInVM

\* the VM has compared the two Nulls
NullComparisonInVMReached ==
    /\ phase = "vm" /\ vm # None /\ vres = ResultOk
    /\ vm.instructions = NullComparisonStream(OP_EQUAL)
    /\ executed = {0, 3, 6}

(***************************************************************************)
(* C19: index expressions                                                  *)
(***************************************************************************)

\* the value of an operand of the index expression of the program
OperandValue(exp) == eval(exp, [env |-> NewEnvironment, trace |-> <<>>]).val

\* the value stored in a hash under the key made of an index value
StoredUnder(pairs, index) ==
    LET at == {n \in 1..Len(pairs) : pairs[n].key = get_hash_key(index).value}
    IN IF at = {} THEN Null ELSE pairs[CHOOSE n \in at : TRUE].value

\* C19: `left[index]` is the element at index for an Array and an Integer
\* inside 0..len-1 and Null outside (negative included); the stored value
\* or Null for a Hash and an Integer, Boolean or String; an Error for every
\* other pair of values; the Error of the left or of the index operand
\* when evaluating the operand gives one.
C19_IndexExpression ==
    (phase = "eval" /\ program \in IndexPrograms /\ evalstatus # "running") =>
        /\ evalstatus = "done"
        /\ LET l == OperandValue(program[1].expression.left)
               i == OperandValue(program[1].expression.index)
           IN CASE is_error(l) -> result = l
                [] is_error(i) -> result = i
                [] l.tag = "Array" /\ i.tag = "Integer" ->
                     result = (IF 0 <= i.value /\ i.value < Len(l.elements)
                               THEN l.elements[i.value + 1] ELSE Null)
                [] l.tag = "Hash" /\ i.tag \in {"Integer", "Boolean", "String"} ->
                     result = StoredUnder(l.pairs, i)
                [] OTHER -> result.tag = "Error"
        /\ program = IndexProgram(ArrayOf(2), IntExpr(1)) => result = Integer(20)
        /\ program = IndexProgram(ArrayOf(2), IntExpr(2)) => result = Null
        /\ program = IndexProgram(ArrayOf(2), IntExpr(0 - 1)) => result = Null
        /\ program = IndexProgram(SampleHash, IntExpr(1)) => result = Integer(11)
        /\ program = IndexProgram(SampleHash, BooleanLit(TRUE)) => result = Integer(20)
        /\ program = IndexProgram(SampleHash, StringLiteral("a")) => result = Integer(30)
        /\ program = IndexProgram(SampleHash, StringLiteral("b")) => result = Null
        /\ program = IndexProgram(SampleHash, NullIf) =>
              result = Error("Unusable as hash key: null")
        /\ program = IndexProgram(Lit(5), IntExpr(0)) =>
              result = Error("Index operator not supported")
        /\ program = IndexProgram(Id("missing"), Id("absent")) =>
              result = Error("Variable 'missing' not found")

\* [10, 20][-1] was evaluated to Null
C19_Witness ==
    /\ phase = "eval"
    /\ evalstatus = "done"
    /\ program = IndexProgram(ArrayOf(2), IntExpr(0 - 1))
    /\ result = Null
    /\ values = <<Null>>

(***************************************************************************)
(* C20: what compile refuses                                               *)
(***************************************************************************)

RECURSIVE DefinedIn(_), DefinedInBlock(_, _), Refused(_, _),
          FirstRefused(_, _, _)

\* the names the Let statements of an expression define
DefinedIn(exp) ==
    CASE exp.type = "Infix" -> DefinedIn(exp.left) \cup DefinedIn(exp.right)
      [] exp.type = "If" ->
           DefinedIn(exp.condition)
           \cup DefinedInBlock(exp.consequence.statements,
                               Len(exp.consequence.statements))
           \cup (IF exp.alternative.tag = "Some"
                 THEN DefinedInBlock(exp.alternative.value.statements,
                                     Len(exp.alternative.value.statements))
                 ELSE {})
      [] OTHER -> {}

\* the names the first n statements define
DefinedInBlock(statements, n) ==
    IF n = 0 THEN {}
    ELSE DefinedInBlock(statements, n - 1)
         \cup (CASE statements[n].type = "Let" ->
                      DefinedIn(statements[n].value) \cup {statements[n].name}
                 [] statements[n].type = "Expression" ->
                      DefinedIn(statements[n].expression)
                 [] OTHER -> {})

\* the expression holds a construct of the list, `defined` being the names
\* defined before it
Refused(exp, defined) ==
    CASE exp.type \in {"FunctionLiteral", "Call", "ArrayLiteral", "HashLiteral",
                       "IndexExpression", "While", "StringLiteral", "Prefix"} ->
           TRUE
      [] exp.type = "Infix" ->
           \/ exp.operator \in {"-", "*", "/"}
           \/ Refused(exp.left, defined)
           \/ Refused(exp.right, defined \cup DefinedIn(exp.left))
      [] exp.type = "Identifier" -> exp.name \notin defined
      [] exp.type = "If" ->
           \/ Refused(exp.condition, defined)
           \/ FirstRefused(exp.consequence.statements, 1,
                           defined \cup DefinedIn(exp.condition)) # 0
           \/ /\ exp.alternative.tag = "Some"
              /\ FirstRefused(exp.alternative.value.statements, 1,
                              defined \cup DefinedIn(exp.condition)
                              \cup DefinedInBlock(exp.consequence.statements,
                                                  Len(exp.consequence.statements))) # 0
      [] OTHER -> FALSE

\* the position of the first statement, from i on, that holds a construct
\* of the list; 0 when there is none
FirstRefused(statements, i, defined) ==
    IF i > Len(statements) THEN 0
    ELSE IF CASE statements[i].type = "Let" -> Refused(statements[i].value, defined)
              [] statements[i].type = "Expression" ->
                   Refused(statements[i].expression, defined)
              [] OTHER -> TRUE
         THEN i
         ELSE FirstRefused(statements, i + 1,
                           defined \cup DefinedInBlock(statements, i))

\* C20: compile returns Err exactly for the programs that hold a function
\* literal, a call, an array, a hash, an index, a while, a string, a prefix
\* operator, a return or assign statement, one of - * /, or an identifier
\* not yet defined; it stops at the first statement that holds one, and
\* the statements after it add no instruction, no constant and no symbol.
C20_CompileStopsAtFirstError ==
    (phase = "compile" /\ cstatus # Running) =>
        LET k == FirstRefused(program, 1, {})
        IN /\ (k = 0) <=> (cstatus = ResultOk)
           /\ k # 0 =>
                 /\ cstatus.tag = "Err"
                 /\ cidx = k
                 /\ compiler =
                        compile_block_loop(NewCompiler, SubSeq(program, 1, k), 1).c
                 /\ DOMAIN compiler.symbol_table.store
                        \subseteq DefinedInBlock(program, k)

\* `1 - 2` was refused; the `mut a = 1` after it defined nothing
C20_Witness ==
    /\ phase = "compile"
    /\ program = <<E(Infix(Lit(1), "-", Lit(2))), Let("a", Lit(1))>>
    /\ cstatus = ResultErr("Unknown operator: -")
    /\ cidx = 1
    /\ compiler.instructions = <<OP_CONSTANT, 0, 0, OP_CONSTANT, 0, 1>>
    /\ DOMAIN compiler.symbol_table.store = {}

(***************************************************************************)
(* C21: get and set on a chain of frames                                   *)
(***************************************************************************)

\* the stores of a chain, the current frame first
RECURSIVE Frames(_)
Frames(e) ==
    IF e.outer.tag = "Some" THEN <<e.store>> \o Frames(e.outer.value)
    ELSE <<e.store>>

\* the binding of a name in the nearest frame that binds it
NearestBinding(e, name) ==
    LET frames == Frames(e)
        binding == {i \in 1..Len(frames) : name \in DOMAIN frames[i]}
    IN IF binding = {} THEN None
       ELSE Some(frames[CHOOSE i \in binding : \A j \in binding : i <= j][name])

\* C21: get(name) returns the value bound in the nearest frame that binds
\* name and None when no frame does; set(name, value) binds name in the
\* current frame and leaves every outer frame and every other name as it
\* was.
C21_GetNearestSetCurrent ==
    [][CASE envcall'.op = "get" ->
              /\ env' = env
              /\ envcall'.found = NearestBinding(env, envcall'.name)
         [] envcall'.op = "set" ->
              /\ env'.outer = env.outer
              /\ DOMAIN env'.store = DOMAIN env.store \cup {envcall'.name}
              /\ env'.store[envcall'.name] = envcall'.val
              /\ \A n \in DOMAIN env.store \ {envcall'.name} :
                    env'.store[n] = env.store[n]
              /\ \A n \in EnvNames \ {envcall'.name} :
                    NearestBinding(env', n) = NearestBinding(env, n)
         [] OTHER -> TRUE]_vars

\* x is bound to 2 in the current frame over a frame that still binds it
\* to 1, y is found in the outer frame, and get has returned the inner x
C21_Witness ==
    /\ envcall = [op |-> "get", name |-> "x", found |-> Some(Integer(2))]
    /\ Depth(env) = 2
    /\ env.store = [n \in {"x"} |-> Integer(2)]
    /\ env.outer.value.store = [n \in {"x", "y"} |-> Integer(1)]

(***************************************************************************)
(* C22: the Return marker                                                  *)
(***************************************************************************)

\* a Return marker, or an array or hash that holds one
RECURSIVE HoldsReturn(_)
HoldsReturn(obj) ==
    CASE obj.tag = "Return" -> TRUE
      [] obj.tag = "Array" ->
           \E k \in 1..Len(obj.elements) : HoldsReturn(obj.elements[k])
      [] obj.tag = "Hash" ->
           \E k \in 1..Len(obj.pairs) : HoldsReturn(obj.pairs[k].value)
      [] OTHER -> FALSE

\* a return nested in an if or a while of a function body ends the call
ReturnEndsCall ==
    (evalstatus = "done" /\ Len(program) = 1
     /\ program[1] \in {E(CallOf(<<E(ReturnIf(Lit(1))), E(Lit(2))>>)),
                        E(CallOf(<<E(While(BooleanLit(TRUE),
                                           Block(<<ReturnStmt(Lit(1))>>))),
                                   E(Lit(2))>>))})
        => result = Integer(1)

\* C22: the value eval_program returns is never a Return marker, no Return
\* marker is bound in the environment or stored in an array or a hash, and
\* a return nested in an if or while of a function body ends the call with
\* the returned value.
C22_ReturnIsInternal ==
    /\ evalstatus = "done" => ~HoldsReturn(result)
    /\ \A n \in DOMAIN env.store : ~HoldsReturn(env.store[n])
    /\ ReturnEndsCall

(***************************************************************************)
(* C23: a function value holds a snapshot of its environment               *)
(***************************************************************************)

\* the value of a literal
LiteralValue(exp) ==
    CASE exp.type = "IntegerLiteral" -> Integer(exp.value)
      [] exp.type = "Boolean" -> Boolean(exp.bool)
      [] exp.type = "StringLiteral" -> String(exp.str)

\* C23: inside a function a name keeps the value it had when the function
\* literal was evaluated, whatever the defining environment binds it to
\* later (`mut x = 1 mut f = fn() { x } mut x = 2 f()` is 1), and a
\* function does not see the names another function of the same
\* environment binds during its call.
C23_FunctionHoldsSnapshot ==
    /\ \A v \in SnapshotValues, w \in SnapshotValues :
          program = SnapshotProgram(v, w) =>
              /\ Len(values) >= 2 =>
                    env.store["f"].env = [store |-> [n \in {"x"} |-> LiteralValue(v)],
                                          outer |-> None]
              /\ Len(values) >= 4 => values[4] = LiteralValue(v)
              /\ Len(values) >= 5 => values[5] = LiteralValue(w)
    /\ \A w \in SnapshotValues :
          (program = LateBindingProgram(w) /\ Len(values) >= 3) =>
              values[3] = Error("Variable 'x' not found")
    /\ \A v \in SnapshotValues :
          program = TwoFunctionsProgram(v) =>
              /\ Len(values) >= 3 => values[3] = LiteralValue(v)
              /\ Len(values) >= 4 => values[4] = Error("Variable 'a' not found")

\* mut x = 1 mut f = fn() { x } mut x = 2 f() x: the call gave 1, x is 2
C23_Witness ==
    /\ program = SnapshotProgram(Lit(1), Lit(2))
    /\ evalstatus = "done"
    /\ values[4] = Integer(1)
    /\ result = Integer(2)

(***************************************************************************)
(* C24: the While loop                                                     *)
(***************************************************************************)

\* k executions of the body, each after an evaluation of the condition,
\* and the evaluation that ends the loop
RECURSIVE LoopEvents(_)
LoopEvents(k) == IF k = 0 THEN <<"cond">> ELSE <<"cond", "body">> \o LoopEvents(k - 1)

\* the value of the last execution of a counting body that leaves i = n
BodyValue(body, n) ==
    IF body = <<Increment>> THEN Null
    ELSE IF body = <<Increment, E(Id("i"))>> THEN Integer(n)
    ELSE Integer(7)

\* the condition is evaluated before every execution of the body and the
\* loop stops the first time it is falsey; its value is the value of the
\* last execution of the body, or Null
WhileCounts ==
    \A s \in 0..MaxIter, n \in 0..MaxIter, body \in CountingBodies :
        (program = CountingProgram(s, n, body) /\ Len(values) >= 2) =>
            /\ trace = LoopEvents(IF s < n THEN n - s ELSE 0)
            /\ values[2] = (IF s < n THEN BodyValue(body, n) ELSE Null)
            /\ env.store["i"] = Integer(IF s < n THEN n ELSE s)

\* a Return in the body of a While that is a statement of the program or
\* of a function body ends the loop, and the program or the call, at once
WhileReturnsAsStatement ==
    \A s \in 0..MaxIter, n \in 0..MaxIter :
        /\ (program = CountingProgram(s, n, ReturningBody) /\ Len(values) >= 2) =>
              IF s < n
              THEN /\ trace = <<"cond", "body">>
                   /\ evalstatus = "done"
                   /\ Len(values) = 2
                   /\ result = Integer(s + 1)
              ELSE trace = <<"cond">> /\ values[2] = Null
        /\ (program = ReturnInFunctionProgram(s, n) /\ Len(values) >= 1) =>
              IF s < n
              THEN trace = <<"cond", "body">> /\ values[1] = Integer(s + 1)
              ELSE trace = <<"cond">> /\ values[1] = Integer(9)

\* the same for a While that is the value of a Let
WhileReturnsInLet ==
    (program = ReturnInLetProgram /\ Len(values) >= 1) =>
        /\ trace = <<"cond", "body">>
        /\ evalstatus = "done"
        /\ Len(values) = 1
        /\ result = Integer(1)

\* C24: a While evaluates its condition before every execution of the body
\* and stops the first time it is falsey; its value is that of the last
\* execution of the body, or Null; a Return in the body ends the loop at
\* once and ends the enclosing call or the program with the returned value.
C24_WhileLoop == WhileCounts /\ WhileReturnsAsStatement /\ WhileReturnsInLet

(***************************************************************************)
(* C25: `<` compiled as a swapped `>`                                      *)
(***************************************************************************)

\* C25: the bytecode of `a < b` leaves Boolean(a < b) on the stack and the
\* bytecode of `a > b` leaves Boolean(a > b), for integers a and b; with an
\* operand that is not an integer on either side, run() returns Err.
C25_SwappedLessThan ==
    (phase = "vm" /\ vres # Running /\ program \in ComparisonPrograms) =>
        LET exp == program[1].expression
        IN IF exp.left.type = "IntegerLiteral" /\ exp.right.type = "IntegerLiteral"
           THEN /\ vres = ResultOk
                /\ stack_top(vm) =
                       Some(Boolean(IF exp.operator = "<"
                                    THEN exp.left.value < exp.right.value
                                    ELSE exp.left.value > exp.right.value))
           ELSE vres.tag = "Err"

\* `1 < 2` ran as OpConstant 2, OpConstant 1, OpGreaterThan and left true
C25_Witness ==
    /\ program = ComparisonProgram(Lit(1), "<", Lit(2))
    /\ phase = "vm"
    /\ vres = ResultOk
    /\ vm.constants = <<Integer(2), Integer(1)>>
    /\ executed = {0, 3, 6}
    /\ stack_top(vm) = Some(Boolean(TRUE))

(***************************************************************************)
(* C26: the tokens of a hash literal                                       *)
(***************************************************************************)

\* C26: when the parse of a hash literal ends, the current token is its
\* closing `}`, for `{}` as for a literal with pairs, so the statement
\* after the literal is parsed: `mut h = {} h` gives two statements.
C26_HashLiteralEndsAtBrace ==
    /\ (phase = "parse" /\ pstatus = "running" /\ program = <<>>
        /\ source \in {Chars("{} h"), Chars("{1: 2} h")}) =>
          parse_hash_literal(parser).p.cur_token = Token("RBrace", "}")
    /\ (phase = "parse" /\ pstatus = "done") =>
          /\ source = Chars("mut h = {1: 2} h") =>
                program = <<Let("h", HashLiteral(<<<<Lit(1), Lit(2)>>>>)), E(Id("h"))>>
          /\ source = Chars("mut h = {} h") =>
                program = <<Let("h", HashLiteral(<<>>)), E(Id("h"))>>

(***************************************************************************)
(* C27: the global slots                                                   *)
(***************************************************************************)

\* every OpGetGlobal and OpSetGlobal operand is a defined index
GlobalOperandsDefined ==
    (compiler # None /\ cstatus = ResultOk) =>
        \A p \in OffsetsOf(compiler.instructions, {OP_GET_GLOBAL, OP_SET_GLOBAL}) :
            OperandAt(compiler.instructions, p) < compiler.symbol_table.num_definitions

\* after run(), the slot of every name whose declaration was executed (the
\* names the evaluator has bound) holds the value of that declaration
SlotsFollowDeclarations ==
    (phase = "vm" /\ vres = ResultOk /\ evalstatus = "done") =>
        \A name \in DOMAIN env.store :
            ReadGlobal(vm, resolve(compiler.symbol_table, name).value.index)
                = env.store[name]

\* mut x = 1 mut x = x + 1 x leaves 2 on the stack top
RedeclarationReadsPreviousSlot ==
    (phase = "vm" /\ vres = ResultOk
     /\ program = <<Let("x", Lit(1)), Let("x", Infix(Id("x"), "+", Lit(1))),
                    E(Id("x"))>>)
        => stack_top(vm) = Some(Integer(2))

\* executing OpSetGlobal i changes no slot other than globals[i]
SetGlobalChangesOneSlot ==
    (phase = "vm" /\ vres = Running /\ ip < Len(vm.instructions)
     /\ vm.instructions[ip + 1] = OP_SET_GLOBAL /\ ip' # ip) =>
        \A j \in 0..(compiler.symbol_table.num_definitions) :
            j # OperandAt(vm.instructions, ip) =>
                ReadGlobal(vm', j) = ReadGlobal(vm, j)

\* C27: the operands of OpGetGlobal and OpSetGlobal are below
\* num_definitions; after run() the slot of every declared name whose
\* declaration was executed holds the value of its most recent
\* declaration; a declaration that mentions its own name reads the
\* previous slot; OpSetGlobal i changes globals[i] only.
C27_GlobalSlots ==
    /\ [](GlobalOperandsDefined /\ SlotsFollowDeclarations
          /\ RedeclarationReadsPreviousSlot)
    /\ [][SetGlobalChangesOneSlot]_vars

\* the same without the programs that declare x inside an if that does not run
SlotsFollowExecutedDeclarations ==
    (\A k \in 1..Len(program) :
        program[k] # E(If(BooleanLit(FALSE), Block(<<Let("x", Lit(5))>>), None)))
        => SlotsFollowDeclarations

SetGlobalProperty == [][SetGlobalChangesOneSlot]_vars

(***************************************************************************)
(* C28: a call leaves the caller's environment as it was                   *)
(***************************************************************************)

\* C28: after f(args) has returned, every name of the caller's environment
\* is bound to the value it had before the call and no new name is bound
\* there, whatever the parameters are called and whatever the body
\* declares; a parameter named like a variable of the caller shadows it
\* during the call only.
C28_CallKeepsCallerEnvironment ==
    (program \in CallPrograms /\ Len(values) >= 4) =>
        /\ env = StateAfter(program, 3).env
        /\ DOMAIN env.store = {"x", "y", "f"}
        /\ env.store["x"] = Integer(1)
        /\ env.store["y"] = Integer(2)
        /\ env.outer = None
        /\ program = CallProgram(<<"x">>, <<E(Id("x"))>>, <<Lit(5)>>) =>
              /\ values[4] = Integer(5)
              /\ Len(values) >= 5 => values[5] = Integer(1)
        /\ program = CallProgram(<<"z">>, <<Let("x", Lit(9)), E(Id("x"))>>, <<Lit(5)>>) =>
              /\ values[4] = Integer(9)
              /\ Len(values) >= 5 => values[5] = Integer(1)

\* fn(x) { x } was called with 5 where the caller binds x to 1: the call
\* gave 5, the x read after it is 1
C28_Witness ==
    /\ program = CallProgram(<<"x">>, <<E(Id("x"))>>, <<Lit(5)>>)
    /\ evalstatus = "done"
    /\ values[4] = Integer(5)
    /\ result = Integer(1)
    /\ DOMAIN env.store = {"x", "y", "f"}

(***************************************************************************)
(* C29: run() terminates on compiled programs                              *)
(***************************************************************************)

\* every jump of a compiled stream points behind the jump instruction
JumpsForward ==
    cstatus = ResultOk =>
        \A p \in Jumps(compiler.instructions) :
            OperandAt(compiler.instructions, p) > p

\* a step of run() after which the loop goes on has moved ip forward
IpIncreases == (phase = "vm" /\ vres' = Running) => ip' > ip

\* run() returns Ok(()) with ip at or behind the end of the stream
EndsBehindStream == (phase = "vm" /\ vres = ResultOk) => ip >= Len(vm.instructions)

\* C29: in compiled code every jump target is greater than the offset of
\* the jump, ip increases at every step of run(), and run() ends, with
\* ip >= instructions.len() when it returns Ok.
C29_RunTerminates ==
    /\ [](JumpsForward /\ EndsBehindStream)
    /\ [][IpIncreases]_vars
    /\ (phase = "vm") ~> (vres # Running)

\* a nested if ran to its end through a jump over the alternative
C29_Witness ==
    /\ program = NestedIfProgram(BooleanLit(TRUE), BooleanLit(FALSE), BooleanLit(TRUE))
    /\ phase = "vm"
    /\ vres = ResultOk
    /\ ip = Len(vm.instructions)
    /\ stack_top(vm) = Some(Integer(2))
    /\ Cardinality(Jumps(vm.instructions)) = 6

(***************************************************************************)
(* C30: parse_program terminates                                           *)
(***************************************************************************)

\* the parser after k calls of next_token
RECURSIVE AfterCalls(_, _)
AfterCalls(p, k) == IF k = 0 THEN p ELSE next_token(AfterCalls(p, k - 1))

\* the tokens the lexer returns before its first EOF
RECURSIVE TokensLeft(_)
TokensLeft(l) ==
    Bind(lexer_next_token(l), LAMBDA n :
        IF n.tok.token_type = "EOF" THEN 0 ELSE 1 + TokensLeft(n.l))

\* the tokens not yet consumed: cur_token, peek_token and the lexer's
Pending(p) ==
    (IF p.cur_token.token_type = "EOF" THEN 0 ELSE 1)
    + (IF p.peek_token.token_type = "EOF" THEN 0 ELSE 1)
    + TokensLeft(p.l)

Consumes(p, q) == Pending(q) < Pending(p)

\* one pass through the body of the loop of parse_hash_literal: [p, val],
\* val None for `return None`, Some(FALSE) for `break`, Some(TRUE) when the
\* loop goes on
hash_literal_iteration(p) ==
    Try(parse_expression(p, Lowest), LAMBDA key :
        Expect(expect_peek(key.p, "Colon"), LAMBDA p1 :
            Try(parse_expression(next_token(p1), Lowest), LAMBDA value :
                IF value.p.peek_token.token_type = "RBrace"
                THEN PR(next_token(value.p), Some(FALSE))
                ELSE Expect(expect_peek(value.p, "Comma"), LAMBDA p2 :
                         PR(next_token(p2), Some(TRUE))))))

\* an iteration of the loop of parse_program or of parse_block_statement
StatementIterationConsumes(p) ==
    p.cur_token.token_type # "EOF" =>
        Consumes(p, next_token(parse_statement(p).p))

\* an iteration of the infix loop of parse_expression returns or consumes
InfixIterationConsumes(p) ==
    \A precedence \in Lowest..IndexPrecedence :
        (/\ p.peek_token.token_type # "Semicolon"
         /\ precedence < token_precedence(p.peek_token.token_type)) =>
            Bind(parse_infix_part(p, p.peek_token.token_type, Identifier("a")),
                 LAMBDA left : left.val.tag = "None" \/ Consumes(p, left.p))

\* an iteration of the loop of parse_expression_list returns or consumes
ListIterationConsumes(p) ==
    p.peek_token.token_type = "Comma" =>
        Bind(parse_expression(next_token(next_token(p)), Lowest),
             LAMBDA exp : exp.val.tag = "None" \/ Consumes(p, exp.p))

\* an iteration of the loop of parse_hash_literal returns or consumes
HashIterationConsumes(p) ==
    Bind(hash_literal_iteration(p),
         LAMBDA r : r.val = Some(TRUE) => Consumes(p, r.p))

\* after an EOF the lexer returns EOF, and the current token stays EOF
EofStays(p) ==
    /\ p.peek_token.token_type = "EOF" =>
          lexer_next_token(p.l).tok.token_type = "EOF"
    /\ p.cur_token.token_type = "EOF" =>
          next_token(p).cur_token.token_type = "EOF"

\* the iterations of the five loops, started at every token of the input
\* and at the two positions behind its end
LoopIterationsConsume ==
    phase = "parse" =>
        LET start == NewParser(NewLexer(source))
        IN \A k \in 0..(Pending(start) + 2) :
              Bind(AfterCalls(start, k), LAMBDA p :
                  /\ StatementIterationConsumes(p)
                  /\ InfixIterationConsumes(p)
                  /\ ListIterationConsumes(p)
                  /\ HashIterationConsumes(p)
                  /\ EofStays(p))

\* an iteration of parse_program leaves fewer tokens than it found
ProgramIterationConsumes ==
    (phase = "parse" /\ iterations' # iterations) => Consumes(parser, parser')

\* C30: parse_program terminates on every input, truncated, unbalanced and
\* malformed ones included: every iteration of the loops of parse_program,
\* parse_block_statement, parse_expression, parse_hash_literal and
\* parse_expression_list consumes a token or returns, the lexer returns EOF
\* on every call after the end of the input, and the current token becomes
\* EOF and stays EOF.
C30_ParseProgramTerminates ==
    /\ []LoopIterationsConsume
    /\ [][ProgramIterationConsumes]_vars
    /\ <>[](phase = "parse" => parser.cur_token.token_type = "EOF")
    /\ <>(phase = "parse" => pstatus = "done")

\* parse_program returned on a hash literal cut off inside its second pair
C30_Witness ==
    /\ source = Chars("mut h = {\"a\": 1, b: [1, 2")
    /\ pstatus = "done"
    /\ parser.cur_token.token_type = "EOF"
    /\ program = <<>>

====
